---- MODULE Spec2Model ----
(***************************************************************************)
(* KindaLocalRepository (src/src/index.js): a polymorphic object           *)
(* repository layered over an object database (kinda-object-db).           *)
(*                                                                         *)
(* The repository's methods are modelled one action per method.  The       *)
(* object database, the item capability and the class registry are         *)
(* collaborators the repository only calls; they are modelled by the       *)
(* contract the repository relies on (Store*, serialize, unserializeItem,  *)
(* ClassNames).                                                            *)
(***************************************************************************)
EXTENDS Integers, Sequences, FiniteSets, TLC

----------------------------------------------------------------------------
(* Program constants and the bounds of the model                           *)

VERSION == 1
RESPIRATION_RATE == 250

\* idgen(16) at the creation of the repository record
NewRepositoryId == 1

\* primary keys 1..NumKeys, property values 1..MaxValue
NumKeys == 2
MaxValue == 2

\* persisted versions a store may hold before this process opens it
MaxStoredVersion == 2

Keys == 1..NumKeys
Values == 1..MaxValue

\* the property bag of an item that carries its primary key only
EmptyValue == 0

\* serialized records are JSON-shaped: distinct from the in-memory value
JsonOffset == 10

\* operations started concurrently on one repository
NumTasks == 2
Tasks == 1..NumTasks

\* events the listener records before the client stops calling
MaxEvents == 4

\* ids idgen hands out before the client stops destroying the repository
MaxRepositoryIds == 3

\* results the store returns to one bulk call, at most
MaxResults == 501

----------------------------------------------------------------------------
(* Schema: the collections of the fixture and their class chains           *)

RegisteredClasses == {"Element", "Account", "Person", "Company"}

\* item.classNames: the class chain of an item, most derived first
ClassNames(c) ==
  CASE c = "Element" -> <<"Element">>
    [] c = "Account" -> <<"Account", "Element">>
    [] c = "Person"  -> <<"Person", "Account", "Element">>
    [] c = "Company" -> <<"Company", "Account", "Element">>
    [] OTHER         -> <<>>

InChain(classes, c) == \E i \in DOMAIN classes : classes[i] = c

\* item.serialize() / collection.unserializeItem(json) / item.replaceValue(json)
serialize(v) == v + JsonOffset
unserialize(json) == json - JsonOffset

Handles == {"root", "view"}
Options == {"unset", "true", "false"}
NoQuery == 0
Queries == {NoQuery} \cup Values

----------------------------------------------------------------------------
(* The object store: one record {classes, value} per primary key           *)

NoRecord == [classes |-> <<>>, value |-> 0]
EmptyDb == [k \in Keys |-> NoRecord]

StoreVisible(s, className, k) == s[k] # NoRecord /\ InChain(s[k].classes, className)

\* objectDatabase.getItem(className, key, {errorIfMissing})
StoreGetItem(s, className, k, errorIfMissing) ==
  IF StoreVisible(s, className, k)
  THEN [err |-> "none", found |-> TRUE, rec |-> s[k]]
  ELSE IF errorIfMissing # "false"
       THEN [err |-> "NotFound", found |-> FALSE, rec |-> NoRecord]
       ELSE [err |-> "none", found |-> FALSE, rec |-> NoRecord]

\* objectDatabase.putItem(classNames, key, value, {errorIfExists})
StorePutItem(s, classNames, k, json, errorIfExists) ==
  IF errorIfExists = "true" /\ (\E i \in DOMAIN classNames : StoreVisible(s, classNames[i], k))
  THEN [err |-> "AlreadyExists", rec |-> s[k]]
  ELSE [err |-> "none", rec |-> [classes |-> classNames, value |-> json]]

\* objectDatabase.deleteItem(className, key, {errorIfMissing})
StoreDeleteItem(s, className, k, errorIfMissing) ==
  IF StoreVisible(s, className, k)
  THEN [err |-> "none", hasBeenDeleted |-> TRUE]
  ELSE IF errorIfMissing # "false"
       THEN [err |-> "NotFound", hasBeenDeleted |-> FALSE]
       ELSE [err |-> "none", hasBeenDeleted |-> FALSE]

StoreMatches(rec, query) == query = NoQuery \/ rec.value = serialize(query)

StoreMatchingKeys(s, className, query) ==
  {k \in Keys : StoreVisible(s, className, k) /\ StoreMatches(s[k], query)}

RECURSIVE Ascending(_)
Ascending(S) ==
  IF S = {} THEN <<>>
  ELSE LET m == CHOOSE x \in S : \A y \in S : x <= y
       IN <<m>> \o Ascending(S \ {m})

\* objectDatabase.findItems(className, {query}): records in primary-key order
StoreFindItems(s, className, query) ==
  LET ks == Ascending(StoreMatchingKeys(s, className, query))
  IN [i \in DOMAIN ks |-> [key |-> ks[i], rec |-> s[ks[i]]]]

\* objectDatabase.countItems(className, {query})
StoreCountItems(s, className, query) == Cardinality(StoreMatchingKeys(s, className, query))

\* objectDatabase.getItems(className, keys, {errorIfMissing}): the records of
\* the keys, in the order of the keys
RECURSIVE StoreGetItems(_, _, _, _)
StoreGetItems(s, className, keys, errorIfMissing) ==
  IF keys = <<>> THEN [err |-> "none", results |-> <<>>]
  ELSE LET k == Head(keys)
           rest == StoreGetItems(s, className, Tail(keys), errorIfMissing)
       IN IF StoreVisible(s, className, k)
          THEN [rest EXCEPT !.results = <<[key |-> k, rec |-> s[k]]>> \o @]
          ELSE IF errorIfMissing # "false"
          THEN [err |-> "NotFound", results |-> <<>>]
          ELSE rest

----------------------------------------------------------------------------
(* State                                                                   *)

VARIABLES
  db,                  \* committed contents of the object database
  repositoryRecord,    \* the record under [name, "$Repository"]
  hasBeenInitialized,  \* repository.hasBeenInitialized
  tx,                  \* the object-database transaction opened by transaction()
  known,               \* what the client has stored: its last successful put or delete per key
  last,                \* the last call made by the client and what it observed
  isInitializing,      \* repository.isInitializing
  _repositoryId,       \* repository._repositoryId, the cached id
  idgen,               \* the id the next idgen(16) returns
  lock,                \* holder of the database-wide lock
  observer,            \* the listener on the repository's events and what it has recorded
  tasks,               \* the operations started concurrently, each with its position
  second               \* a second repository instance opened against the same store

vars == <<db, repositoryRecord, hasBeenInitialized, tx, known, last,
          isInitializing, _repositoryId, idgen, lock, observer, tasks, second>>

NoRepositoryRecord == [version |-> -1, id |-> 0]

\* an item as the client holds it
NoItem == [class |-> "none", value |-> EmptyValue]
\* the mark of a key whose item the client has deleted
DeletedItem == [class |-> "deleted", value |-> EmptyValue]
IsItem(item) == item # NoItem /\ item # DeletedItem
NothingKnown == [k \in Keys |-> NoItem]

NoTx ==
  [open |-> FALSE, handle |-> "root", touched |-> {}, store |-> EmptyDb,
   base |-> EmptyDb, known |-> NothingKnown, depth |-> 0, opened |-> 0,
   own |-> FALSE, outside |-> {}, created |-> FALSE, inner |-> FALSE]

NoLast ==
  [op |-> "none", h |-> "root", cls |-> "none", key |-> 0, value |-> 0,
   isNew |-> FALSE, errorIfMissing |-> "unset", errorIfExists |-> "unset",
   query |-> NoQuery, outcome |-> "none", items |-> <<>>, flag |-> FALSE,
   n |-> 0, ev |-> <<>>, arg |-> EmptyValue, inside |-> FALSE,
   prior |-> NoItem, touched |-> {}, store |-> EmptyDb, before |-> EmptyDb,
   fn |-> "none", calledInitialize |-> FALSE, inst |-> 1, pc |-> "none",
   keys |-> <<>>, inner |-> FALSE]

\* this._repositoryId before getRepositoryId has set it
NoRepositoryId == 0

\* the database-wide lock when nobody holds it
NoLock == 0

\* a listener that is not attached records nothing
NoObserver ==
  [attached |-> FALSE, events |-> <<>>, deleted |-> 0, put |-> 0, pending |-> {}]
Observer == [NoObserver EXCEPT !.attached = TRUE]

\* a task that has not started an operation
IdleTask ==
  [pc |-> "idle", op |-> "none", hasBeenCreated |-> FALSE, err |-> "none",
   initialized |-> FALSE, inst |-> 1, cls |-> "none", query |-> NoQuery,
   batchSize |-> 0, cursor |-> 0, batch |-> <<>>, n |-> 0, yields |-> 0,
   started |-> <<>>, handled |-> <<>>, inFlight |-> 0, emitted |-> {},
   record |-> NoRepositoryRecord,
   put |-> [written |-> FALSE, errorIfExists |-> FALSE, createIfMissing |-> FALSE]]
NoTasks == [t \in Tasks |-> IdleTask]

\* the second instance before its first operation
NotOpened ==
  [hasBeenInitialized |-> FALSE, _repositoryId |-> NoRepositoryId,
   isInitializing |-> FALSE]

\* the stores a repository may be opened against: empty, or holding the record
\* an earlier process has written
StoredRecords ==
  {NoRepositoryRecord}
    \cup {[version |-> v, id |-> NewRepositoryId] : v \in 0..MaxStoredVersion}

InitWith(listener) ==
  /\ db = EmptyDb
  /\ repositoryRecord \in StoredRecords
  /\ hasBeenInitialized = FALSE
  /\ tx = NoTx
  /\ known = NothingKnown
  /\ last = NoLast
  /\ isInitializing = FALSE
  /\ _repositoryId = NoRepositoryId
  /\ idgen = IF repositoryRecord = NoRepositoryRecord
             THEN NewRepositoryId ELSE NewRepositoryId + 1
  /\ lock = NoLock
  /\ observer = listener
  /\ tasks = NoTasks
  /\ second = NotOpened

Init == InitWith(NoObserver)

\* the same repository with a listener attached to its events
InitObserved == InitWith(Observer)

----------------------------------------------------------------------------
(* Lifecycle                                                               *)

\* the handle's own repository: a view created by Object.create(root) inherits it
repository(h) == "root"

isInsideTransaction(h) == h # repository(h)

\* tr.put(key, record, {errorIfExists, createIfMissing}) on the key of the
\* repository record: errorIfExists refuses a record that is present, and a
\* put that may neither fail on a present record nor create a missing one
\* refuses a record that is absent
StorePut(stored, record, options) ==
  IF options.errorIfExists
  THEN IF stored # NoRepositoryRecord
       THEN [err |-> "AlreadyExists", rec |-> stored]
       ELSE [err |-> "none", rec |-> record]
  ELSE IF stored = NoRepositoryRecord /\ ~options.createIfMissing
       THEN [err |-> "NotFound", rec |-> stored]
       ELSE [err |-> "none", rec |-> record]

\* saveRepositoryRecord(record, tr, errorIfExists): the options of its put,
\* { errorIfExists, createIfMissing: !errorIfExists }; an argument left out
\* is undefined, and !undefined is true
saveRepositoryRecordOptions(errorIfExists) ==
  [errorIfExists |-> errorIfExists = "true", createIfMissing |-> ~(errorIfExists = "true")]

\* a createRepositoryIfDoesNotExist that writes a new record whatever it loaded
createRepositoryIfDoesNotExist_Always ==
  [hasBeenCreated |-> TRUE,
   rec |-> [version |-> VERSION, id |-> idgen],
   ev |-> <<"didCreate">>]

\* createRepositoryIfDoesNotExist: load the record; create it when absent
createRepositoryIfDoesNotExist ==
  IF repositoryRecord = NoRepositoryRecord
  THEN [hasBeenCreated |-> TRUE,
        rec |-> [version |-> VERSION, id |-> idgen],
        ev |-> <<"didCreate">>]
  ELSE [hasBeenCreated |-> FALSE, rec |-> repositoryRecord, ev |-> <<>>]

\* an upgradeRepository without the test of line 115: a newer record is left as it is
upgradeRepository_AcceptsNewer(record) ==
  IF record.version >= VERSION
  THEN [err |-> "none", rec |-> record, ev |-> <<>>]
  ELSE [err |-> "none", rec |-> [record EXCEPT !.version = VERSION],
        ev |-> <<"upgradeDidStart", "upgradeDidStop">>]

\* an upgradeRepository without the test of line 113: a record of the current
\* version is upgraded and saved like an older one
upgradeRepository_SavesCurrent(record) ==
  IF record.version > VERSION
  THEN [err |-> "CannotDowngrade", rec |-> record, ev |-> <<>>]
  ELSE [err |-> "none", rec |-> [record EXCEPT !.version = VERSION],
        ev |-> <<"upgradeDidStart", "upgradeDidStop">>]

upgradeRepository(record) ==
  IF record.version = VERSION
  THEN [err |-> "none", rec |-> record, ev |-> <<>>]
  ELSE IF record.version > VERSION
  THEN [err |-> "CannotDowngrade", rec |-> record, ev |-> <<>>]
  ELSE [err |-> "none", rec |-> [record EXCEPT !.version = VERSION],
        ev |-> <<"upgradeDidStart", "upgradeDidStop">>]

\* an initializeRepository without the isInitializing test of line 55
initializeRepositoryReturns_IgnoresIsInitializing(initialized, initializing) == initialized

\* if (this.hasBeenInitialized) return; if (this.isInitializing) return;
initializeRepositoryReturns(initialized, initializing) == initialized \/ initializing

\* initializeRepository as one call running to completion, on an instance
\* whose flags are `initialized` and `initializing`:
\* [err, hbi, rec, ev, created] = the error raised, the flag, the record and
\* the events after it, and whether the record was created
initializeRepositoryOf(initialized, initializing, h) ==
  LET returned == [err |-> "none", hbi |-> initialized, rec |-> repositoryRecord,
                   ev |-> <<>>, created |-> FALSE]
  IN IF initializeRepositoryReturns(initialized, initializing) THEN returned
     ELSE IF isInsideTransaction(h)
     THEN [returned EXCEPT !.err = "InitInsideTransaction"]
     ELSE LET c == createRepositoryIfDoesNotExist IN
          IF c.hasBeenCreated
          THEN [err |-> "none", hbi |-> TRUE, rec |-> c.rec,
                ev |-> c.ev \o <<"didInitialize">>, created |-> TRUE]
          ELSE LET u == upgradeRepository(c.rec) IN
               IF u.err # "none"
               THEN [err |-> u.err, hbi |-> FALSE, rec |-> u.rec, ev |-> u.ev,
                     created |-> FALSE]
               ELSE [err |-> "none", hbi |-> TRUE, rec |-> u.rec,
                     ev |-> u.ev \o <<"didInitialize">>, created |-> FALSE]

\* this.hasBeenInitialized as handle h reads it: a view created by
\* Object.create(root) reads the root's property until an assignment through
\* the view (line 135) gives the view a property of its own
hasBeenInitializedOf(h) ==
  IF isInsideTransaction(h) /\ tx.own THEN FALSE ELSE hasBeenInitialized

\* on a view initializeRepository returns or raises before any assignment, so
\* the root's flag stays as it is
initializeRepository(h) ==
  LET init == initializeRepositoryOf(hasBeenInitializedOf(h), isInitializing, h)
  IN IF isInsideTransaction(h) THEN [init EXCEPT !.hbi = hasBeenInitialized] ELSE init

\* idgen(16) never returns the same id twice
idgenAfter(init) == IF init.created THEN idgen + 1 ELSE idgen

\* the events a listener hears carry the item the call was about
EventOf(name, call) ==
  IF name \in {"didPutItem", "didDeleteItem"}
  THEN [name |-> name, key |-> call.key, value |-> call.value]
  ELSE [name |-> name, key |-> 0, value |-> 0]

\* this.emit(...): an attached listener records every event of the call, and
\* the client counts the puts that succeeded and the deletes that returned true
Heard(call) ==
  IF ~observer.attached THEN observer
  ELSE [observer EXCEPT
          !.events = @ \o [i \in DOMAIN call.ev |-> EventOf(call.ev[i], call)]
                       \o (IF call.op = "findAndDeleteItems"
                           THEN [i \in DOMAIN call.items |->
                                   [name |-> "didDeleteItem", key |-> call.items[i].key,
                                    value |-> 0]]
                           ELSE <<>>),
          !.put = IF call.op = "putItem" /\ call.outcome = "ok" THEN @ + 1 ELSE @,
          !.deleted = IF call.op = "deleteItem" /\ call.outcome = "ok" /\ call.flag
                      THEN @ + 1
                      ELSE IF call.op = "findAndDeleteItems" /\ call.outcome = "ok"
                      THEN @ + call.n
                      ELSE @]

\* this.emit(name) outside the item operations
Emit(names) ==
  IF ~observer.attached THEN observer
  ELSE [observer EXCEPT !.events = @ \o [i \in DOMAIN names |-> EventOf(names[i], NoLast)]]

\* what an operation of the first instance leaves of the repository's own
\* state once its initializeRepository has run
AfterInitialize(init) ==
  /\ hasBeenInitialized' = init.hbi
  /\ repositoryRecord' = init.rec
  /\ idgen' = idgenAfter(init)
  /\ UNCHANGED <<isInitializing, _repositoryId, lock, tasks, second>>

----------------------------------------------------------------------------
(* Transaction scope                                                       *)

\* a view whose objectDatabase field was never rebound: it inherits the root's
objectDatabase_NotRebound(h) == "db"

\* a repository whose own objectDatabase is the transaction while one is open
objectDatabase_WhileOpen(h) == IF h = "view" \/ tx.open THEN "tr" ELSE "db"

\* this.objectDatabase of a handle: the view's field is rebound to the transaction
objectDatabase(h) == IF h = "view" THEN "tr" ELSE "db"

\* a transaction() that hands fn the repository itself (fn(this)) instead of the view
transactionHandle_PassesThis(h) == h

\* the handle transaction() passes to fn
transactionHandle(h) == IF isInsideTransaction(h) THEN h ELSE "view"

\* what an object-database handle reads: the transaction sees its own writes
Contents(database) ==
  IF database = "tr"
  THEN [k \in Keys |-> IF k \in tx.touched THEN tx.store[k] ELSE db[k]]
  ELSE db

WriteDb(h, k, rec) == IF objectDatabase(h) = "tr" THEN db ELSE [db EXCEPT ![k] = rec]

\* tx.outside: the keys written through the root while the transaction is open;
\* tx.inner: the body of a nested transaction() under way has written
WriteTx(h, k, rec) ==
  IF objectDatabase(h) = "tr"
  THEN [tx EXCEPT !.touched = @ \cup {k}, !.store[k] = rec,
                  !.inner = tx.depth > 1]
  ELSE IF tx.open THEN [tx EXCEPT !.outside = @ \cup {k}] ELSE tx

\* the client's own bookkeeping follows the handle it used
KnownTo(h) == IF isInsideTransaction(h) THEN tx.known ELSE known

NoteKnown(h, k, item) ==
  IF isInsideTransaction(h) THEN known ELSE [known EXCEPT ![k] = item]

NoteTxKnown(t, h, k, item) ==
  IF isInsideTransaction(h) THEN [t EXCEPT !.known[k] = item] ELSE t

CurrentHandle == IF tx.open THEN tx.handle ELSE "root"

Call(op, h, c, k) ==
  [NoLast EXCEPT !.op = op, !.h = h, !.cls = c, !.key = k,
                 !.inside = isInsideTransaction(h),
                 !.prior = IF k \in Keys THEN KnownTo(h)[k] ELSE NoItem]

transactionBegin(h) ==
  LET call == Call("transaction", h, "none", 0)
      init == initializeRepository(h)
  IN /\ ~tx.open
     /\ ~isInsideTransaction(h)
     /\ AfterInitialize(init)
     /\ UNCHANGED <<db, known>>
     /\ IF init.err # "none"
        THEN /\ tx' = tx
             /\ last' = [call EXCEPT !.outcome = init.err, !.ev = init.ev,
                                     !.calledInitialize = TRUE]
        ELSE /\ tx' = [open |-> TRUE, handle |-> transactionHandle(h), touched |-> {},
                       store |-> EmptyDb, base |-> db, known |-> known,
                       depth |-> 1, opened |-> 1, own |-> FALSE, outside |-> {},
                       created |-> init.created, inner |-> FALSE]
             /\ last' = [call EXCEPT !.outcome = "running", !.ev = init.ev,
                                     !.fn = transactionHandle(h),
                                     !.calledInitialize = TRUE]
     /\ observer' = Heard(last')

\* fn returns: the object database commits the transaction
transactionReturn ==
  /\ tx.open
  /\ db' = [k \in Keys |-> IF k \in tx.touched THEN tx.store[k] ELSE db[k]]
  /\ known' = [k \in Keys |-> IF k \in tx.touched THEN tx.known[k] ELSE known[k]]
  /\ repositoryRecord' = IF tx.own THEN NoRepositoryRecord ELSE repositoryRecord
  /\ tx' = NoTx
  /\ last' = [Call("transaction", "root", "none", 0) EXCEPT
                !.outcome = "ok", !.touched = tx.touched, !.store = tx.store,
                !.before = tx.base, !.flag = tx.created]
  /\ UNCHANGED <<hasBeenInitialized, isInitializing, _repositoryId,
                 idgen, lock, observer, tasks, second>>

\* a transaction() that calls initializeRepository inside the store
\* transaction it opens: a record created there goes with the aborted transaction
transactionCoversInitialize_Always(created) == created

\* await this.initializeRepository() (line 149) comes before
\* this.objectDatabase.transaction(...) (line 150): what it wrote is not part
\* of the store transaction
transactionCoversInitialize(created) == FALSE

\* fn raises: the object database aborts the transaction and the error propagates
transactionRaise ==
  /\ tx.open
  /\ tx' = NoTx
  /\ repositoryRecord' = IF transactionCoversInitialize(tx.created)
                         THEN NoRepositoryRecord ELSE repositoryRecord
  /\ last' = [Call("transaction", "root", "none", 0) EXCEPT
                !.outcome = "UserError", !.touched = tx.touched, !.store = tx.store,
                !.before = tx.base, !.flag = tx.created]
  /\ UNCHANGED <<db, known, hasBeenInitialized, isInitializing,
                 _repositoryId, idgen, lock, observer, tasks, second>>

\* deepest chain of nested transaction() calls the client makes
MaxDepth == 3

\* a transaction() without the test of line 148: it always opens a store transaction
transactionIsNested_Never(h) == FALSE

\* if (this.isInsideTransaction) return await fn(this)
transactionIsNested(h) == isInsideTransaction(h)

\* transaction(fn) on any handle.  On a view: fn(this).  On the root:
\* initializeRepository, then a store transaction around fn(view).  Reaching the
\* store from a view would open a store transaction on tr and hand fn one more view.
transaction(h) ==
  LET call == Call("transaction", h, "none", 0) IN
  IF transactionIsNested(h)
  THEN /\ tx.open
       /\ tx' = [tx EXCEPT !.depth = @ + 1]
       /\ last' = [call EXCEPT !.outcome = "running", !.fn = h]
       /\ UNCHANGED <<db, known, repositoryRecord, hasBeenInitialized, isInitializing,
                      _repositoryId, idgen, lock, observer, tasks, second>>
  ELSE IF ~tx.open
  THEN transactionBegin(h)
  ELSE LET init == initializeRepository(h) IN
       /\ AfterInitialize(init)
       /\ UNCHANGED <<db, known>>
       /\ IF init.err # "none"
          THEN /\ tx' = tx
               /\ last' = [call EXCEPT !.outcome = init.err, !.ev = init.ev,
                                       !.calledInitialize = TRUE]
          ELSE /\ tx' = [tx EXCEPT !.depth = @ + 1, !.opened = @ + 1]
               /\ last' = [call EXCEPT !.outcome = "running", !.ev = init.ev,
                                       !.fn = "view of view", !.calledInitialize = TRUE]
       /\ observer' = Heard(last')

\* the fn of a nested transaction() returns: return await fn(this), nothing is committed
nestedReturn ==
  /\ tx.open
  /\ tx.depth > 1
  /\ tx' = [tx EXCEPT !.depth = @ - 1, !.inner = IF tx.depth = 2 THEN FALSE ELSE @]
  /\ last' = [Call("transaction", tx.handle, "none", 0) EXCEPT !.outcome = "ok",
                !.fn = tx.handle]
  /\ UNCHANGED <<db, known, repositoryRecord, hasBeenInitialized, isInitializing,
                 _repositoryId, idgen, lock, observer, tasks, second>>

\* a nested transaction() whose raising body undoes writes: when the body has
\* written, the writes of the transaction so far are dropped
nestedAbort_Savepoint(t) ==
  IF t.inner THEN [t EXCEPT !.touched = {}, !.store = EmptyDb] ELSE t

\* return await fn(this) (line 148): the error of fn passes through
\* transaction() as it is, the store transaction is not told
nestedAbort(t) == t

\* the fn of a nested transaction() raises: the error reaches the enclosing
\* body, nothing is aborted
nestedRaise ==
  /\ tx.open
  /\ tx.depth > 1
  /\ tx' = [nestedAbort(tx) EXCEPT !.depth = @ - 1,
                                   !.inner = IF tx.depth = 2 THEN FALSE ELSE @]
  /\ last' = [Call("transaction", tx.handle, "none", 0) EXCEPT !.outcome = "UserError",
                !.fn = tx.handle, !.inner = tx.inner]
  /\ UNCHANGED <<db, known, repositoryRecord, hasBeenInitialized, isInitializing,
                 _repositoryId, idgen, lock, observer, tasks, second>>

----------------------------------------------------------------------------
(* Operations                                                              *)

\* the part of a call every operation shares: initializeRepository, then the
\* observation `obs` when it succeeded
Observe(call, init, obs) ==
  IF init.err # "none"
  THEN [call EXCEPT !.outcome = init.err, !.ev = init.ev, !.calledInitialize = TRUE]
  ELSE [obs EXCEPT !.ev = init.ev \o @, !.calledInitialize = TRUE]

\* a getItem that returns the item it was given without item.replaceValue(result.value)
getItemResult_NoReplaceValue(call, className, k, result) ==
  IF result.err # "none" THEN [call EXCEPT !.outcome = result.err]
  ELSE IF ~result.found THEN [call EXCEPT !.outcome = "ok"]
  ELSE LET resultClassName == result.rec.classes[1] IN
       IF resultClassName = className
       THEN [call EXCEPT !.outcome = "ok",
               !.items = <<[obj |-> "arg", class |-> className, key |-> k,
                            value |-> EmptyValue]>>]
       ELSE [call EXCEPT !.outcome = "ok",
               !.items = <<[obj |-> "fresh", class |-> resultClassName, key |-> k,
                            value |-> unserialize(result.rec.value)]>>]

\* a getItem without class resolution: always item.replaceValue(result.value); return item
getItemResult_AlwaysReplaceValue(call, className, k, result) ==
  IF result.err # "none" THEN [call EXCEPT !.outcome = result.err]
  ELSE IF ~result.found THEN [call EXCEPT !.outcome = "ok"]
  ELSE [call EXCEPT !.outcome = "ok", !.arg = unserialize(result.rec.value),
          !.items = <<[obj |-> "arg", class |-> className, key |-> k,
                       value |-> unserialize(result.rec.value)]>>]

\* getItem, after the store answered: undefined, the same item refreshed, or
\* a new item of the stored (most derived) class
getItemResult(call, className, k, result) ==
  IF result.err # "none" THEN [call EXCEPT !.outcome = result.err]
  ELSE IF ~result.found THEN [call EXCEPT !.outcome = "ok"]
  ELSE LET resultClassName == result.rec.classes[1] IN
       IF resultClassName = className
       THEN [call EXCEPT !.outcome = "ok", !.arg = unserialize(result.rec.value),
               !.items = <<[obj |-> "arg", class |-> className, key |-> k,
                            value |-> unserialize(result.rec.value)]>>]
       ELSE IF resultClassName \notin RegisteredClasses
       THEN [call EXCEPT !.outcome = "UnknownClass"]
       ELSE [call EXCEPT !.outcome = "ok",
               !.items = <<[obj |-> "fresh", class |-> resultClassName, key |-> k,
                            value |-> unserialize(result.rec.value)]>>]

\* a getItem that reads this.repository.objectDatabase, and one that drops its options
getItemDatabase_OfRoot(h) == "db"

getItemOptions_Dropped(options) == "unset"

\* this.objectDatabase.getItem(className, key, options): the handle's own
\* object database and the caller's options
getItemDatabase(h) == objectDatabase(h)

getItemOptions(options) == options

getItem(h, className, k, options) ==
  LET call == [Call("getItem", h, className, k) EXCEPT !.errorIfMissing = options]
      init == initializeRepository(h)
      result == StoreGetItem(Contents(getItemDatabase(h)), className, k,
                             getItemOptions(options))
  IN /\ AfterInitialize(init)
     /\ last' = Observe(call, init, getItemResult(call, className, k, result))
     /\ observer' = Heard(last')
     /\ UNCHANGED <<db, tx, known>>

\* a putItem that stores the item under its own class only ([item.class.name])
putItemClassNames_ItemClassOnly(className) == <<className>>

\* a putItem that leaves the caller's errorIfExists as it is for a new item
putItemOptions_KeepCallerOption(isNew, errorIfExists) == errorIfExists

\* item.classNames and item.serialize() as putItem reads them
putItemClassNames(className) == ClassNames(className)

\* options = _.clone(options); if (item.isNew) options.errorIfExists = true
putItemOptions(isNew, errorIfExists) == IF isNew THEN "true" ELSE errorIfExists

\* a putItem that keeps its event back while it runs inside a transaction
putItemEvents_NotInsideTransaction(h) ==
  IF isInsideTransaction(h) THEN <<>> ELSE <<"didPutItem">>

\* await this.emit('didPutItem', item, options), once the store has written
putItemEvents(h) == <<"didPutItem">>

putItem(h, className, k, v, isNew, errorIfExists) ==
  LET call == [Call("putItem", h, className, k) EXCEPT
                 !.value = v, !.isNew = isNew, !.errorIfExists = errorIfExists]
      init == initializeRepository(h)
      result == StorePutItem(Contents(objectDatabase(h)), putItemClassNames(className), k,
                             serialize(v),
                             putItemOptions(isNew, errorIfExists))
      done == init.err = "none" /\ result.err = "none"
  IN /\ AfterInitialize(init)
     /\ db' = IF done THEN WriteDb(h, k, result.rec) ELSE db
     /\ tx' = IF done
              THEN NoteTxKnown(WriteTx(h, k, result.rec), h, k, [class |-> className, value |-> v])
              ELSE tx
     /\ known' = IF done THEN NoteKnown(h, k, [class |-> className, value |-> v]) ELSE known
     /\ last' = Observe(call, init,
                  IF result.err # "none"
                  THEN [call EXCEPT !.outcome = result.err]
                  ELSE [call EXCEPT !.outcome = "ok", !.ev = putItemEvents(h)])
     /\ observer' = Heard(last')

\* a deleteItem that emits didDeleteItem whatever the store reported
deleteItemEvents_Always(hasBeenDeleted) == <<"didDeleteItem">>

\* a deleteItem that drops its options, and one that reports true whatever the store says
deleteItemOptions_Dropped(options) == "unset"

deleteItemReturn_AlwaysTrue(hasBeenDeleted) == TRUE

\* a deleteItem that asks the store for an error on a missing item, whatever it was given
deleteItemOptions_ErrorIfMissing(options) == "true"

\* this.objectDatabase.deleteItem(className, key, options)
deleteItemOptions(options) == options

\* if (hasBeenDeleted) await this.emit('didDeleteItem', item, options)
deleteItemEvents(hasBeenDeleted) == IF hasBeenDeleted THEN <<"didDeleteItem">> ELSE <<>>

\* return hasBeenDeleted
deleteItemReturn(hasBeenDeleted) == hasBeenDeleted

deleteItem(h, className, k, options) ==
  LET call == [Call("deleteItem", h, className, k) EXCEPT !.errorIfMissing = options]
      init == initializeRepository(h)
      result == StoreDeleteItem(Contents(objectDatabase(h)), className, k,
                                deleteItemOptions(options))
      returned == init.err = "none" /\ result.err = "none"
      done == returned /\ result.hasBeenDeleted
      told == returned /\ deleteItemReturn(result.hasBeenDeleted)
      t == IF done THEN WriteTx(h, k, NoRecord) ELSE tx
  IN /\ AfterInitialize(init)
     /\ db' = IF done THEN WriteDb(h, k, NoRecord) ELSE db
     /\ tx' = IF told THEN NoteTxKnown(t, h, k, DeletedItem) ELSE t
     /\ known' = IF told THEN NoteKnown(h, k, DeletedItem) ELSE known
     /\ last' = Observe(call, init,
                  IF result.err # "none"
                  THEN [call EXCEPT !.outcome = result.err]
                  ELSE [call EXCEPT !.outcome = "ok",
                          !.flag = deleteItemReturn(result.hasBeenDeleted),
                          !.ev = deleteItemEvents(result.hasBeenDeleted)])
     /\ observer' = Heard(last')

ItemKeys(items) == {items[i].key : i \in DOMAIN items}

\* a loop that unserializes every result through the collection of the last
\* class of its chain, the base class
Materialise_AtBaseClass(results) ==
  [i \in DOMAIN results |->
     [obj |-> "fresh", class |-> results[i].rec.classes[Len(results[i].rec.classes)],
      key |-> results[i].key, value |-> unserialize(results[i].rec.value)]]

\* the loop of getItems and findItems / the handler of forEachItems: every
\* store result is unserialized through the collection of its classes[0]
Materialise(results) ==
  [i \in DOMAIN results |->
     [obj |-> "fresh", class |-> results[i].rec.classes[1], key |-> results[i].key,
      value |-> unserialize(results[i].rec.value)]]

\* a repository that builds an item of whatever class the store names
UnknownClassIn_Never(results) == FALSE

UnknownClassIn(results) ==
  \E i \in DOMAIN results : results[i].rec.classes[1] \notin RegisteredClasses

\* the results a handler has been through when the lookup of a class raises:
\* those before the first record of an unregistered class
KnownPrefix(results) ==
  LET unknown == {i \in DOMAIN results : results[i].rec.classes[1] \notin RegisteredClasses}
  IN IF unknown = {} THEN results
     ELSE SubSeq(results, 1, (CHOOSE i \in unknown : \A j \in unknown : i <= j) - 1)

\* collection.Item.name, the class findItems / countItems / forEachItems query
collectionItemName(className) == className

findItems(h, className, query) ==
  LET call == [Call("findItems", h, className, 0) EXCEPT !.query = query]
      init == initializeRepository(h)
      results == StoreFindItems(Contents(objectDatabase(h)), collectionItemName(className),
                                query)
  IN /\ AfterInitialize(init)
     /\ last' = Observe(call, init,
                  IF UnknownClassIn(results)
                  THEN [call EXCEPT !.outcome = "UnknownClass"]
                  ELSE [call EXCEPT !.outcome = "ok", !.items = Materialise(results),
                          !.n = Len(results)])
     /\ observer' = Heard(last')
     /\ UNCHANGED <<db, tx, known>>

countItems(h, className, query) ==
  LET call == [Call("countItems", h, className, 0) EXCEPT !.query = query]
      init == initializeRepository(h)
  IN /\ AfterInitialize(init)
     /\ last' = Observe(call, init,
                  [call EXCEPT !.outcome = "ok",
                     !.n = StoreCountItems(Contents(objectDatabase(h)),
                                           collectionItemName(className), query)])
     /\ observer' = Heard(last')
     /\ UNCHANGED <<db, tx, known>>

\* forEachItems with a handler that records the item it is given
forEachItems(h, className, query) ==
  LET call == [Call("forEachItems", h, className, 0) EXCEPT !.query = query]
      init == initializeRepository(h)
      results == StoreFindItems(Contents(objectDatabase(h)), collectionItemName(className),
                                query)
  IN /\ AfterInitialize(init)
     /\ last' = Observe(call, init,
                  IF UnknownClassIn(results)
                  THEN [call EXCEPT !.outcome = "UnknownClass",
                          !.items = Materialise(KnownPrefix(results))]
                  ELSE [call EXCEPT !.outcome = "ok", !.items = Materialise(results),
                          !.n = Len(results)])
     /\ observer' = Heard(last')
     /\ UNCHANGED <<db, tx, known>>

\* lists of primary keys a client asks getItems for
MaxListLen == 2
KeyLists ==
  {ks \in UNION {[1..n -> Keys] : n \in 0..MaxListLen} :
     \A i, j \in DOMAIN ks : i # j => ks[i] # ks[j]}

\* a getItems that calls initializeRepository before it looks at its input
getItemsReturnsAtOnce_Never(keys) == FALSE

\* if (!items.length) return []
getItemsReturnsAtOnce(keys) == Len(keys) = 0

getItems(h, className, keys, options) ==
  LET call == [Call("getItems", h, className, 0) EXCEPT !.errorIfMissing = options,
                                                       !.keys = keys]
      init == initializeRepository(h)
      got == StoreGetItems(Contents(objectDatabase(h)), className, keys, options)
  IN IF getItemsReturnsAtOnce(keys)
     THEN /\ last' = [call EXCEPT !.outcome = "ok"]
          /\ UNCHANGED <<db, repositoryRecord, hasBeenInitialized, tx, known,
                         isInitializing, _repositoryId, idgen, lock, observer, tasks,
                         second>>
     ELSE /\ AfterInitialize(init)
          /\ last' = Observe(call, init,
                       IF got.err # "none"
                       THEN [call EXCEPT !.outcome = got.err]
                       ELSE IF UnknownClassIn(got.results)
                       THEN [call EXCEPT !.outcome = "UnknownClass"]
                       ELSE [call EXCEPT !.outcome = "ok",
                               !.items = Materialise(got.results),
                               !.n = Len(got.results)])
          /\ observer' = Heard(last')
          /\ UNCHANGED <<db, tx, known>>

\* a findAndDeleteItems that does not hand its options to forEachItems
findAndDeleteItemsOptions_Dropped(query) == NoQuery

\* this.forEachItems(collection, options, ...)
findAndDeleteItemsOptions(query) == query

\* the handler of findAndDeleteItems over the records forEachItems yields:
\* item.delete({errorIfMissing: false}) through the item's own class, counting
\* the deletes that returned true
\* the client makes the call it has just made once more
Repeats(op, h, className, query) ==
  /\ last.op = op
  /\ last.outcome = "ok"
  /\ last.h = h
  /\ last.cls = className
  /\ last.query = query

RECURSIVE deleteEach(_, _)
deleteEach(s, results) ==
  IF results = <<>> THEN [store |-> s, deleted |-> <<>>]
  ELSE LET r == Head(results)
           d == StoreDeleteItem(s, r.rec.classes[1], r.key, "false")
           rest == deleteEach(IF d.hasBeenDeleted THEN [s EXCEPT ![r.key] = NoRecord] ELSE s,
                              Tail(results))
       IN IF d.hasBeenDeleted
          THEN [rest EXCEPT !.deleted = <<r>> \o @]
          ELSE rest

findAndDeleteItems(h, className, query) ==
  LET call == [Call("findAndDeleteItems", h, className, 0) EXCEPT
                 !.query = query, !.before = Contents(objectDatabase(h)),
                 !.flag = Repeats("findAndDeleteItems", h, className, query)]
      init == initializeRepository(h)
      results == StoreFindItems(Contents(objectDatabase(h)), collectionItemName(className),
                                findAndDeleteItemsOptions(query))
      done == init.err = "none"
      each == deleteEach(Contents(objectDatabase(h)), KnownPrefix(results))
      gone == ItemKeys(each.deleted)
  IN /\ AfterInitialize(init)
     /\ db' = IF done /\ objectDatabase(h) = "db" THEN each.store ELSE db
     /\ tx' = IF done /\ isInsideTransaction(h)
              THEN [tx EXCEPT !.touched = @ \cup gone,
                              !.store = [k \in Keys |-> IF k \in gone THEN NoRecord ELSE @[k]],
                              !.known = [k \in Keys |-> IF k \in gone THEN DeletedItem ELSE @[k]]]
              ELSE tx
     /\ known' = IF done /\ ~isInsideTransaction(h)
                 THEN [k \in Keys |-> IF k \in gone THEN DeletedItem ELSE known[k]]
                 ELSE known
     /\ last' = Observe(call, init,
                  IF UnknownClassIn(results)
                  THEN [call EXCEPT !.outcome = "UnknownClass"]
                  ELSE [call EXCEPT !.outcome = "ok", !.items = Materialise(each.deleted),
                          !.n = Len(each.deleted)])
     /\ observer' = Heard(last')

----------------------------------------------------------------------------
(* Repository id and destruction, on either of two instances opened        *)
(* against the same store                                                  *)

Instances == {1, 2}

InstanceInitialized(i) == IF i = 1 THEN hasBeenInitialized ELSE second.hasBeenInitialized

InstanceRepositoryId(i) == IF i = 1 THEN _repositoryId ELSE second._repositoryId

\* the fields of instance i after an assignment; the other instance keeps its own
SetInstance(i, initialized, id) ==
  /\ hasBeenInitialized' = IF i = 1 THEN initialized ELSE hasBeenInitialized
  /\ _repositoryId' = IF i = 1 THEN id ELSE _repositoryId
  /\ second' = IF i = 2
               THEN [second EXCEPT !.hasBeenInitialized = initialized,
                                   !._repositoryId = id]
               ELSE second

\* the listener is attached to the first instance
EmitFrom(i, names) == IF i = 1 THEN Emit(names) ELSE observer

\* this.emit(name) without await (lines 119 and 129): the listeners have been
\* called, and what they do asynchronously is still under way when emit returns
EmitUnawaited(i, names) ==
  LET heard == EmitFrom(i, names) IN
  IF i = 1 /\ observer.attached
  THEN [heard EXCEPT !.pending = @ \cup {names[j] : j \in DOMAIN names}]
  ELSE heard

\* an asynchronous delivery comes to its end, whenever the listener is done
deliveryCompletes(name) ==
  /\ name \in observer.pending
  /\ observer' = [observer EXCEPT !.pending = @ \ {name}]
  /\ UNCHANGED <<db, repositoryRecord, hasBeenInitialized, tx, known, last,
                 isInitializing, _repositoryId, idgen, lock, tasks, second>>

\* a getRepositoryId without the memo of line 141: it reads the record every time
getRepositoryIdCached_Never(cached) == FALSE

\* if (this._repositoryId) return this._repositoryId
getRepositoryIdCached(cached) == cached # NoRepositoryId

\* getRepositoryId on handle h of instance i: the cached id, or the id of the
\* record loadRepositoryRecord reads (initializeRepository first, then
\* tr.get with errorIfMissing), cached on this.repository
getRepositoryId(i, h) ==
  LET call == [Call("getRepositoryId", h, "none", 0) EXCEPT !.inst = i]
      cached == InstanceRepositoryId(i)
      seen == IF i = 1 THEN hasBeenInitializedOf(h) ELSE InstanceInitialized(i)
      called == initializeRepositoryOf(seen, FALSE, h)
      init == IF isInsideTransaction(h)
              THEN [called EXCEPT !.hbi = InstanceInitialized(i)] ELSE called
  IN IF getRepositoryIdCached(cached)
     THEN /\ last' = [call EXCEPT !.outcome = "ok", !.value = cached]
          /\ UNCHANGED <<db, repositoryRecord, hasBeenInitialized, tx, known,
                         isInitializing, _repositoryId, idgen, lock, observer, tasks,
                         second>>
     ELSE /\ repositoryRecord' = init.rec
          /\ idgen' = idgenAfter(init)
          /\ observer' = EmitFrom(i, init.ev)
          /\ IF init.err # "none"
             THEN /\ SetInstance(i, init.hbi, cached)
                  /\ last' = [call EXCEPT !.outcome = init.err, !.ev = init.ev,
                                          !.calledInitialize = TRUE]
             ELSE IF init.rec = NoRepositoryRecord
             THEN /\ SetInstance(i, init.hbi, cached)
                  /\ last' = [call EXCEPT !.outcome = "NotFound", !.ev = init.ev,
                                          !.calledInitialize = TRUE]
             ELSE /\ SetInstance(i, init.hbi, init.rec.id)
                  /\ last' = [call EXCEPT !.outcome = "ok", !.value = init.rec.id,
                                          !.ev = init.ev, !.calledInitialize = TRUE]
          /\ UNCHANGED <<db, tx, known, isInitializing, lock, tasks>>

\* await this.emit('willDestroy')
destroyRepositoryCall(i) ==
  /\ ~tx.open
  /\ last' = [Call("destroyRepository", "root", "none", 0) EXCEPT
                !.inst = i, !.outcome = "running", !.pc = "destroyObjectDatabase",
                !.ev = <<"willDestroy">>]
  /\ observer' = EmitFrom(i, <<"willDestroy">>)
  /\ UNCHANGED <<db, repositoryRecord, hasBeenInitialized, tx, known, isInitializing,
                 _repositoryId, idgen, lock, tasks, second>>

\* await this.objectDatabase.destroyObjectDatabase(): the store drops
\* everything it holds, the repository record included
destroyObjectDatabase ==
  /\ last.op = "destroyRepository"
  /\ last.pc = "destroyObjectDatabase"
  /\ db' = EmptyDb
  /\ repositoryRecord' = NoRepositoryRecord
  /\ known' = NothingKnown
  /\ last' = [last EXCEPT !.pc = "didDestroy"]
  /\ UNCHANGED <<hasBeenInitialized, tx, isInitializing, _repositoryId, idgen, lock,
                 observer, tasks, second>>

\* a destroyRepository that leaves hasBeenInitialized as it is
destroyRepositoryFlag_Kept(initialized) == initialized

\* this.hasBeenInitialized = false
destroyRepositoryFlag(initialized) == FALSE

\* this.hasBeenInitialized = false; delete this.repository._repositoryId;
\* await this.emit('didDestroy')
destroyRepositoryClears ==
  /\ last.op = "destroyRepository"
  /\ last.pc = "didDestroy"
  /\ SetInstance(last.inst, destroyRepositoryFlag(InstanceInitialized(last.inst)),
                 NoRepositoryId)
  /\ observer' = EmitFrom(last.inst, <<"didDestroy">>)
  /\ last' = [last EXCEPT !.pc = "return", !.ev = @ \o <<"didDestroy">>]
  /\ UNCHANGED <<db, repositoryRecord, tx, known, isInitializing, idgen, lock, tasks>>

destroyRepositoryReturns ==
  /\ last.op = "destroyRepository"
  /\ last.pc = "return"
  /\ last' = [last EXCEPT !.pc = "none", !.outcome = "ok"]
  /\ UNCHANGED <<db, repositoryRecord, hasBeenInitialized, tx, known, isInitializing,
                 _repositoryId, idgen, lock, observer, tasks, second>>

\* destroyRepository called on the view a transaction body was given.
\* this.objectDatabase is the transaction: what the object database holds is
\* dropped inside it, and for good when it commits.  this.hasBeenInitialized =
\* false assigns a property of the view itself; delete
\* this.repository._repositoryId reaches the root.
destroyRepositoryInView ==
  /\ tx.open
  /\ tx' = [tx EXCEPT !.touched = Keys, !.store = EmptyDb, !.known = NothingKnown,
                      !.own = ~destroyRepositoryFlag(hasBeenInitializedOf(tx.handle))]
  /\ _repositoryId' = NoRepositoryId
  /\ last' = [Call("destroyRepository", tx.handle, "none", 0) EXCEPT
                !.outcome = "ok", !.ev = <<"willDestroy", "didDestroy">>]
  /\ observer' = Emit(<<"willDestroy", "didDestroy">>)
  /\ UNCHANGED <<db, repositoryRecord, hasBeenInitialized, known, isInitializing,
                 idgen, lock, tasks, second>>

----------------------------------------------------------------------------
(* Operations started concurrently: every await is a point where another   *)
(* task may run                                                            *)

TaskOps == {"initializeRepository", "getItem", "countItems"}

Goto(t, pc) == [tasks EXCEPT ![t].pc = pc]

\* the operation is called: it runs up to its first await, which is inside
\* initializeRepository (lines 54-61) or on its return
taskCallsOn(t, i, op) ==
  LET initializing == IF i = 1 THEN isInitializing ELSE second.isInitializing IN
  /\ tasks[t].pc = "idle"
  /\ IF initializeRepositoryReturns(InstanceInitialized(i), initializing)
     THEN /\ tasks' = [tasks EXCEPT ![t] =
                         [IdleTask EXCEPT !.pc = "initialized", !.op = op, !.inst = i]]
          /\ UNCHANGED <<isInitializing, second>>
     ELSE /\ tasks' = [tasks EXCEPT ![t] =
                         [IdleTask EXCEPT !.pc = "initializeObjectDatabase", !.op = op,
                                          !.inst = i]]
          /\ isInitializing' = IF i = 1 THEN TRUE ELSE isInitializing
          /\ second' = IF i = 2 THEN [second EXCEPT !.isInitializing = TRUE] ELSE second
  /\ UNCHANGED <<db, repositoryRecord, hasBeenInitialized, tx, known, last,
                 _repositoryId, idgen, lock, observer>>

\* a call on the first instance
taskCalls(t, op) == taskCallsOn(t, 1, op)

\* await this.objectDatabase.initializeObjectDatabase()
taskInitializeObjectDatabase(t) ==
  /\ tasks[t].pc = "initializeObjectDatabase"
  /\ tasks' = Goto(t, "createRepositoryIfDoesNotExist")
  /\ UNCHANGED <<db, repositoryRecord, hasBeenInitialized, tx, known, last,
                 isInitializing, _repositoryId, idgen, lock, observer, second>>

\* an initializeRepository that goes from createRepositoryIfDoesNotExist to
\* upgradeRepository without lockDatabase()
taskCreateRepositoryIfDoesNotExist_NoLock(t) ==
  LET c == createRepositoryIfDoesNotExist IN
  /\ tasks[t].pc = "createRepositoryIfDoesNotExist"
  /\ repositoryRecord' = c.rec
  /\ idgen' = IF c.hasBeenCreated THEN idgen + 1 ELSE idgen
  /\ observer' = EmitFrom(tasks[t].inst, c.ev)
  /\ tasks' = [tasks EXCEPT ![t].hasBeenCreated = c.hasBeenCreated,
                            ![t].emitted = {c.ev[j] : j \in DOMAIN c.ev},
                            ![t].put = IF c.hasBeenCreated
                                       THEN [written |-> TRUE] @@ saveRepositoryRecordOptions("true")
                                       ELSE @,
                            ![t].pc = IF c.hasBeenCreated THEN "didInitialize"
                                      ELSE "upgradeRepository"]
  /\ UNCHANGED <<db, hasBeenInitialized, tx, known, last, isInitializing,
                 _repositoryId, lock, second>>

\* let hasBeenCreated = await this.createRepositoryIfDoesNotExist(): one store transaction
taskCreateRepositoryIfDoesNotExist(t) ==
  LET c == createRepositoryIfDoesNotExist IN
  /\ tasks[t].pc = "createRepositoryIfDoesNotExist"
  /\ repositoryRecord' = c.rec
  /\ idgen' = IF c.hasBeenCreated THEN idgen + 1 ELSE idgen
  /\ observer' = EmitFrom(tasks[t].inst, c.ev)
  /\ tasks' = [tasks EXCEPT ![t].hasBeenCreated = c.hasBeenCreated,
                            ![t].emitted = {c.ev[j] : j \in DOMAIN c.ev},
                            ![t].put = IF c.hasBeenCreated
                                       THEN [written |-> TRUE] @@ saveRepositoryRecordOptions("true")
                                       ELSE @,
                            ![t].pc = IF c.hasBeenCreated THEN "didInitialize"
                                      ELSE "lockDatabase"]
  /\ UNCHANGED <<db, hasBeenInitialized, tx, known, last, isInitializing,
                 _repositoryId, lock, second>>

\* await this.objectDatabase.database.lockDatabase()
taskLockDatabase(t) ==
  /\ tasks[t].pc = "lockDatabase"
  /\ lock = NoLock
  /\ lock' = t
  /\ tasks' = Goto(t, "upgradeRepository")
  /\ UNCHANGED <<db, repositoryRecord, hasBeenInitialized, tx, known, last,
                 isInitializing, _repositoryId, idgen, observer, second>>

\* await this.upgradeRepository(), up to its save: the record is loaded, its
\* version is compared with VERSION, and upgradeDidStart is emitted when the
\* record is older
taskUpgradeRepository(t) ==
  LET u == upgradeRepository(repositoryRecord)
      saves == u.err = "none" /\ u.ev # <<>>
      ev == IF saves THEN SubSeq(u.ev, 1, 1) ELSE <<>>
  IN /\ tasks[t].pc = "upgradeRepository"
     /\ observer' = EmitUnawaited(tasks[t].inst, ev)
     /\ tasks' = [tasks EXCEPT ![t].err = u.err,
                               ![t].pc = IF saves THEN "saveRepositoryRecord"
                                         ELSE "unlockDatabase",
                               ![t].record = u.rec,
                               ![t].emitted = {ev[j] : j \in DOMAIN ev}]
     /\ UNCHANGED <<db, repositoryRecord, hasBeenInitialized, tx, known, last,
                    isInitializing, _repositoryId, idgen, lock, second>>

\* record.version = VERSION; await this.saveRepositoryRecord(record);
\* this.emit('upgradeDidStop')
taskSaveRepositoryRecord(t) ==
  LET options == saveRepositoryRecordOptions("unset")
      result == StorePut(repositoryRecord, tasks[t].record, options)
      ev == IF result.err = "none" THEN <<"upgradeDidStop">> ELSE <<>>
  IN /\ tasks[t].pc = "saveRepositoryRecord"
     /\ repositoryRecord' = result.rec
     /\ observer' = EmitUnawaited(tasks[t].inst, ev)
     /\ tasks' = [tasks EXCEPT ![t].err = result.err,
                               ![t].pc = "unlockDatabase",
                               ![t].put = [written |-> result.err = "none"] @@ options,
                               ![t].emitted = @ \cup {ev[j] : j \in DOMAIN ev}]
     /\ UNCHANGED <<db, hasBeenInitialized, tx, known, last, isInitializing,
                    _repositoryId, idgen, lock, second>>

\* an unlockDatabase that follows upgradeRepository outside any finally: it is
\* skipped when upgradeRepository raised
taskUnlockDatabase_OnSuccessOnly(t) ==
  /\ tasks[t].pc = "unlockDatabase"
  /\ lock' = IF tasks[t].err = "none" THEN NoLock ELSE lock
  /\ tasks' = Goto(t, IF tasks[t].err = "none" THEN "didInitialize" ELSE "finally")
  /\ UNCHANGED <<db, repositoryRecord, hasBeenInitialized, tx, known, last,
                 isInitializing, _repositoryId, idgen, observer, second>>

\* finally { await this.objectDatabase.database.unlockDatabase() }
taskUnlockDatabase(t) ==
  /\ tasks[t].pc = "unlockDatabase"
  /\ lock' = NoLock
  /\ tasks' = Goto(t, IF tasks[t].err = "none" THEN "didInitialize" ELSE "finally")
  /\ UNCHANGED <<db, repositoryRecord, hasBeenInitialized, tx, known, last,
                 isInitializing, _repositoryId, idgen, observer, second>>

\* this.hasBeenInitialized = true; await this.emit('didInitialize')
taskDidInitialize(t) ==
  /\ tasks[t].pc = "didInitialize"
  /\ SetInstance(tasks[t].inst, TRUE, InstanceRepositoryId(tasks[t].inst))
  /\ observer' = EmitFrom(tasks[t].inst, <<"didInitialize">>)
  /\ tasks' = Goto(t, "finally")
  /\ UNCHANGED <<db, repositoryRecord, tx, known, last, isInitializing, idgen, lock>>

\* finally { this.isInitializing = false }
taskFinally(t) ==
  /\ tasks[t].pc = "finally"
  /\ isInitializing' = IF tasks[t].inst = 1 THEN FALSE ELSE isInitializing
  /\ second' = IF tasks[t].inst = 2 THEN [second EXCEPT !.isInitializing = FALSE]
               ELSE second
  /\ tasks' = Goto(t, IF tasks[t].err = "none" THEN "initialized" ELSE "failed")
  /\ UNCHANGED <<db, repositoryRecord, hasBeenInitialized, tx, known, last,
                 _repositoryId, idgen, lock, observer>>

\* await this.initializeRepository() has returned: the operation issues its
\* call to this.objectDatabase (a direct initializeRepository() call is over)
taskStoreCall(t) ==
  /\ tasks[t].pc = "initialized"
  /\ tasks[t].op \in TaskOps
  /\ tasks' = [tasks EXCEPT ![t].pc = "done",
                            ![t].initialized = InstanceInitialized(tasks[t].inst)]
  /\ UNCHANGED <<db, repositoryRecord, hasBeenInitialized, tx, known, last,
                 isInitializing, _repositoryId, idgen, lock, observer, second>>

\* the caller has its result or its error
taskReturns(t) ==
  /\ tasks[t].pc \in {"done", "failed"}
  /\ tasks' = [tasks EXCEPT ![t] = IdleTask]
  /\ UNCHANGED <<db, repositoryRecord, hasBeenInitialized, tx, known, last,
                 isInitializing, _repositoryId, idgen, lock, observer, second>>

----------------------------------------------------------------------------
(* Bulk calls: the loops over the results of the store                     *)

BulkOps == {"getItems", "findItems", "forEachItems"}

\* a loop that never awaits util.timeout(0)
respires_Never(op, iterationsCount) == FALSE

\* if (++iterationsCount % RESPIRATION_RATE === 0) await util.timeout(0), in
\* the loops of getItems and findItems; the handler forEachItems gives the
\* store counts nothing and calls no util.timeout
respires(op, iterationsCount) ==
  op \in {"getItems", "findItems"} /\ iterationsCount % RESPIRATION_RATE = 0

\* the loop from the result after iterationsCount, run until it awaits
\* util.timeout(0), at the first count for which the test holds, or has
\* processed the n results
runLoop(op, iterationsCount, n) ==
  LET awaits == {c \in (iterationsCount + 1)..n : respires(op, c)} IN
  IF awaits = {} THEN [iterationsCount |-> n, respires |-> FALSE]
  ELSE [iterationsCount |-> CHOOSE c \in awaits : \A d \in awaits : c <= d,
        respires |-> TRUE]

\* let results = await this.objectDatabase.getItems / findItems(...), or the
\* store of forEachItems starting to call the handler: n results to process
taskResults(t, n) ==
  /\ tasks[t].pc = "initialized"
  /\ tasks[t].op \in BulkOps
  /\ tasks' = [tasks EXCEPT ![t].pc = "loop", ![t].n = n,
                            ![t].initialized = InstanceInitialized(tasks[t].inst)]
  /\ UNCHANGED <<db, repositoryRecord, hasBeenInitialized, tx, known, last,
                 isInitializing, _repositoryId, idgen, lock, observer, second>>

\* the loop runs on from where it was: up to its next util.timeout(0), where
\* the scheduler takes over, or to its end
taskLoop(t) ==
  LET run == runLoop(tasks[t].op, tasks[t].cursor, tasks[t].n) IN
  /\ tasks[t].pc = "loop"
  /\ tasks' = [tasks EXCEPT ![t].cursor = run.iterationsCount,
                            ![t].yields = IF run.respires THEN @ + 1 ELSE @,
                            ![t].pc = IF run.respires THEN "loop" ELSE "done"]
  /\ UNCHANGED <<db, repositoryRecord, hasBeenInitialized, tx, known, last,
                 isInitializing, _repositoryId, idgen, lock, observer, second>>

----------------------------------------------------------------------------
(* forEachItems and findAndDeleteItems, record by record                   *)

IterateOps == {"forEachItems", "findAndDeleteItems"}

\* this.objectDatabase.forEachItems(className, options, handler, this), once
\* initializeRepository has returned; findAndDeleteItems gets here through
\* this.forEachItems(collection, options, ...)
taskForEachItems(t, className, query, batchSize) ==
  /\ tasks[t].pc = "initialized"
  /\ tasks[t].op \in IterateOps
  /\ tasks' = [tasks EXCEPT
                 ![t].pc = "iterate",
                 ![t].cls = collectionItemName(className),
                 ![t].query = IF tasks[t].op = "findAndDeleteItems"
                              THEN findAndDeleteItemsOptions(query) ELSE query,
                 ![t].batchSize = batchSize,
                 ![t].initialized = InstanceInitialized(tasks[t].inst)]
  /\ UNCHANGED <<db, repositoryRecord, hasBeenInitialized, tx, known, last,
                 isInitializing, _repositoryId, idgen, lock, observer, second>>

\* a handler given to the store that starts fn and returns without awaiting it
handlerAwaitsFn_Never == FALSE

\* await fn.call(thisArg, item): the handler given to the store ends when fn has ended
handlerAwaitsFn == TRUE

\* the store's iteration: it reads the records after the last one it has
\* yielded, batchSize at a time in key order, and calls the handler with the
\* next of them once the previous call of the handler has ended; the handler
\* unserializes the item and calls fn, which starts to run
taskStoreYields(t) ==
  LET me == tasks[t]
      after == Ascending({k \in StoreMatchingKeys(db, me.cls, me.query) : k > me.cursor})
      read == [i \in 1..(IF Len(after) < me.batchSize THEN Len(after) ELSE me.batchSize)
                 |-> [key |-> after[i], rec |-> db[after[i]]]]
      batch == IF me.batch # <<>> THEN me.batch ELSE read
  IN /\ me.pc = "iterate"
     /\ tasks' = IF batch = <<>>
                 THEN Goto(t, "done")
                 ELSE [tasks EXCEPT ![t].batch = Tail(batch),
                                    ![t].cursor = Head(batch).key,
                                    ![t].started = Append(@, Head(batch)),
                                    ![t].inFlight = @ + 1,
                                    ![t].pc = IF handlerAwaitsFn THEN "handler"
                                              ELSE "iterate"]
     /\ UNCHANGED <<db, repositoryRecord, hasBeenInitialized, tx, known, last,
                    isInitializing, _repositoryId, idgen, lock, observer, second>>

\* items bound to a transactional view instead of the repository the call was made on
handlerRepository_View(h) == "view"

\* this.createCollectionFromItemClassName(...): the items handed to fn belong
\* to the handle forEachItems was called on, and item.delete() goes through it
handlerRepository(h) == h

\* fn ends.  The fn of findAndDeleteItems: item.delete({errorIfMissing: false}),
\* that is deleteItem on the item's own class, and deletedItemsCount++ when it
\* returned true.  The fn of a forEachItems caller: it returns, or it raises.
taskFnEnds(t, raises) ==
  LET me == tasks[t]
      r == me.started[Len(me.handled) + 1]
      h == handlerRepository("root")
      result == StoreDeleteItem(Contents(objectDatabase(h)), r.rec.classes[1], r.key,
                                deleteItemOptions("false"))
      deletes == me.op = "findAndDeleteItems"
      done == deletes /\ result.err = "none" /\ result.hasBeenDeleted
      err == IF deletes THEN result.err ELSE IF raises THEN "UserError" ELSE "none"
  IN /\ me.pc \in {"iterate", "handler", "done"}
     /\ me.inFlight > 0
     /\ deletes => ~raises
     /\ db' = IF done THEN WriteDb(h, r.key, NoRecord) ELSE db
     /\ tx' = IF done THEN WriteTx(h, r.key, NoRecord) ELSE tx
     /\ known' = IF done THEN [known EXCEPT ![r.key] = DeletedItem] ELSE known
     /\ observer' = IF done THEN Emit(deleteItemEvents(result.hasBeenDeleted)) ELSE observer
     /\ tasks' = [tasks EXCEPT
                    ![t].inFlight = @ - 1,
                    ![t].err = err,
                    ![t].n = IF done /\ deleteItemReturn(result.hasBeenDeleted)
                             THEN @ + 1 ELSE @,
                    ![t].handled =
                      IF err # "none" THEN @
                      ELSE Append(@, [key |-> r.key,
                                      gone |-> db[r.key] # NoRecord /\ db'[r.key] = NoRecord]),
                    ![t].pc = IF err # "none" THEN "failed"
                              ELSE IF me.pc = "handler" THEN "iterate" ELSE me.pc]
     /\ UNCHANGED <<repositoryRecord, hasBeenInitialized, last, isInitializing,
                    _repositoryId, idgen, lock, second>>

\* the store call in flight fails, or the call is cancelled while it waits
taskStoreFails(t) ==
  /\ tasks[t].op \in IterateOps
  /\ tasks[t].pc \in {"iterate", "handler"}
  /\ tasks' = [tasks EXCEPT ![t].pc = "failed", ![t].err = "StoreError"]
  /\ UNCHANGED <<db, repositoryRecord, hasBeenInitialized, tx, known, last,
                 isInitializing, _repositoryId, idgen, lock, observer, second>>

----------------------------------------------------------------------------
(* Specifications                                                          *)

PutClasses == {"Account", "Person", "Company"}

\* the client awaits every call: it looks at the result of one call, then
\* makes the next
Idle == last.op = "none"

resultConsumed ==
  /\ ~Idle
  /\ last.pc = "none"
  /\ last' = NoLast
  /\ UNCHANGED <<db, repositoryRecord, hasBeenInitialized, tx, known, isInitializing,
                 _repositoryId, idgen, lock, observer, tasks, second>>

\* Spec: a client calling the root repository, one call at a time
Next ==
  \/ Idle /\ \E c \in RegisteredClasses, k \in Keys, o \in Options : getItem("root", c, k, o)
  \/ Idle /\ \E c \in PutClasses, k \in Keys, v \in Values, n \in BOOLEAN, o \in Options :
               putItem("root", c, k, v, n, o)
  \/ Idle /\ \E c \in RegisteredClasses, k \in Keys, o \in Options : deleteItem("root", c, k, o)
  \/ Idle /\ \E c \in RegisteredClasses, q \in Queries : findItems("root", c, q)
  \/ Idle /\ \E c \in RegisteredClasses, q \in Queries : countItems("root", c, q)
  \/ Idle /\ \E c \in RegisteredClasses, q \in Queries : forEachItems("root", c, q)
  \/ resultConsumed

Spec == Init /\ [][Next]_vars

\* SpecTx: the same client also running transactions; inside the body it
\* calls the handle it was given
TxClasses == {"Account", "Person"}
TxOptions == {"unset", "false"}

NextTx ==
  \/ Idle /\ \E c \in TxClasses, k \in Keys, o \in TxOptions : getItem(CurrentHandle, c, k, o)
  \/ Idle /\ \E k \in Keys, v \in Values, n \in BOOLEAN :
               putItem(CurrentHandle, "Person", k, v, n, "unset")
  \/ Idle /\ \E c \in TxClasses, k \in Keys : deleteItem(CurrentHandle, c, k, "false")
  \/ Idle /\ \E c \in TxClasses : findItems(CurrentHandle, c, NoQuery)
  \/ Idle /\ \E c \in TxClasses : countItems(CurrentHandle, c, NoQuery)
  \/ Idle /\ transactionBegin("root")
  \/ Idle /\ transactionReturn
  \/ Idle /\ transactionRaise
  \/ resultConsumed

SpecTx == Init /\ [][NextTx]_vars

\* SpecNested: the same client also calling transaction() on the handle its
\* body was given, to any depth up to MaxDepth
NextNested ==
  \/ Idle /\ \E k \in Keys, o \in TxOptions : getItem(CurrentHandle, "Account", k, o)
  \/ Idle /\ \E k \in Keys, v \in Values : putItem(CurrentHandle, "Person", k, v, FALSE, "unset")
  \/ Idle /\ \E k \in Keys : deleteItem(CurrentHandle, "Person", k, "false")
  \/ Idle /\ tx.depth < MaxDepth /\ transaction(CurrentHandle)
  \/ Idle /\ nestedReturn
  \/ Idle /\ nestedRaise
  \/ Idle /\ tx.depth = 1 /\ transactionReturn
  \/ Idle /\ tx.depth = 1 /\ transactionRaise
  \/ resultConsumed

SpecNested == Init /\ [][NextNested]_vars

\* SpecOps: a client calling every operation of the root repository, one call
\* at a time
OpsClasses == {"Account", "Person"}
PolymorphicOps ==
  {"getItem", "putItem", "deleteItem", "getItems", "findItems", "countItems",
   "forEachItems", "findAndDeleteItems"}

\* the same findAndDeleteItems run a second time, right after the first returned
findAndDeleteItemsAgain ==
  /\ last.op = "findAndDeleteItems"
  /\ last.outcome = "ok"
  /\ ~last.flag
  /\ findAndDeleteItems(last.h, last.cls, last.query)

NextOps ==
  \/ Idle /\ \E k \in Keys, o \in TxOptions : getItem("root", "Account", k, o)
  \/ Idle /\ \E c \in {"Person", "Company"}, k \in Keys, v \in Values, n \in BOOLEAN :
               putItem("root", c, k, v, n, "unset")
  \/ Idle /\ \E k \in Keys, o \in TxOptions : deleteItem("root", "Account", k, o)
  \/ Idle /\ \E c \in OpsClasses, ks \in KeyLists, o \in TxOptions : getItems("root", c, ks, o)
  \/ Idle /\ \E c \in OpsClasses, q \in Queries : findItems("root", c, q)
  \/ Idle /\ \E c \in OpsClasses, q \in Queries : countItems("root", c, q)
  \/ Idle /\ \E c \in OpsClasses, q \in Queries : forEachItems("root", c, q)
  \/ Idle /\ \E c \in OpsClasses, q \in Queries : findAndDeleteItems("root", c, q)
  \/ findAndDeleteItemsAgain
  \/ resultConsumed

SpecOps == Init /\ [][NextOps]_vars

\* SpecForeign: the same client on a store that another application, with a
\* class this repository does not register, has written items to
InitForeign ==
  /\ db \in [Keys -> {NoRecord, [classes |-> <<"Contact", "Account", "Element">>,
                                  value |-> MaxValue]}]
  /\ db # EmptyDb
  /\ repositoryRecord \in StoredRecords \ {NoRepositoryRecord}
  /\ hasBeenInitialized = FALSE
  /\ tx = NoTx
  /\ known = NothingKnown
  /\ last = NoLast
  /\ isInitializing = FALSE
  /\ _repositoryId = NoRepositoryId
  /\ idgen = NewRepositoryId + 1
  /\ lock = NoLock
  /\ observer = NoObserver
  /\ tasks = NoTasks
  /\ second = NotOpened

SpecForeign == InitForeign /\ [][NextOps]_vars

\* SpecReopen: two instances opened against the same store, the first also
\* running transactions; each asks for the repository id and stores items
NextReopen ==
  \/ Idle /\ \E i \in Instances : ~tx.open /\ getRepositoryId(i, "root")
  \/ Idle /\ tx.open /\ getRepositoryId(1, CurrentHandle)
  \/ Idle /\ \E k \in Keys, v \in Values : putItem(CurrentHandle, "Person", k, v, FALSE, "unset")
  \/ Idle /\ \E k \in Keys : getItem(CurrentHandle, "Account", k, "false")
  \/ Idle /\ transactionBegin("root")
  \/ Idle /\ transactionReturn
  \/ Idle /\ transactionRaise
  \/ resultConsumed

SpecReopen == Init /\ [][NextReopen]_vars

\* SpecId: the same two instances, either of which may also destroy the repository
NextId ==
  \/ NextReopen
  \/ Idle /\ idgen <= MaxRepositoryIds /\ \E i \in Instances : destroyRepositoryCall(i)
  \/ destroyObjectDatabase
  \/ destroyRepositoryClears
  \/ destroyRepositoryReturns

SpecId == Init /\ [][NextId]_vars

\* SpecDestroy: one instance with a listener attached; its client stores and
\* reads items, asks for the repository id and destroys the repository, until
\* the listener has recorded MaxEvents events
Listening == Len(observer.events) < MaxEvents

NextDestroy ==
  \/ Idle /\ Listening /\ \E k \in Keys, v \in Values :
               putItem("root", "Person", k, v, FALSE, "unset")
  \/ Idle /\ Listening /\ \E k \in Keys : getItem("root", "Account", k, "false")
  \/ Idle /\ Listening /\ getRepositoryId(1, "root")
  \/ Idle /\ Listening /\ idgen <= MaxRepositoryIds /\ destroyRepositoryCall(1)
  \/ destroyObjectDatabase
  \/ destroyRepositoryClears
  \/ destroyRepositoryReturns
  \/ resultConsumed

SpecDestroy == InitObserved /\ [][NextDestroy]_vars

\* SpecEvents: a client of the root repository putting and deleting items,
\* outside transactions, with a listener attached
NextEvents ==
  \/ Idle /\ Listening /\ \E k \in Keys, v \in Values, n \in BOOLEAN, o \in Options :
               putItem("root", "Person", k, v, n, o)
  \/ Idle /\ Listening /\ \E c \in OpsClasses, k \in Keys, o \in Options :
               deleteItem("root", c, k, o)
  \/ Idle /\ Listening /\ \E q \in Queries : findAndDeleteItems("root", "Account", q)
  \/ resultConsumed

SpecEvents == InitObserved /\ [][NextEvents]_vars

\* SpecTxEvents: the same client also running transactions
NextTxEvents ==
  \/ Idle /\ Listening /\ \E k \in Keys, v \in Values, n \in BOOLEAN :
               putItem(CurrentHandle, "Person", k, v, n, "unset")
  \/ Idle /\ Listening /\ \E k \in Keys : deleteItem(CurrentHandle, "Account", k, "false")
  \/ Idle /\ Listening /\ transactionBegin("root")
  \/ Idle /\ transactionReturn
  \/ Idle /\ transactionRaise
  \/ resultConsumed

SpecTxEvents == InitObserved /\ [][NextTxEvents]_vars

\* SpecRace: NumTasks operations on the root started without awaiting one
\* another, a listener attached
NextRace ==
  \/ \E t \in Tasks, op \in TaskOps : taskCalls(t, op)
  \/ \E t \in Tasks : taskInitializeObjectDatabase(t)
  \/ \E t \in Tasks : taskCreateRepositoryIfDoesNotExist(t)
  \/ \E t \in Tasks : taskLockDatabase(t)
  \/ \E t \in Tasks : taskUpgradeRepository(t)
  \/ \E t \in Tasks : taskSaveRepositoryRecord(t)
  \/ \E t \in Tasks : taskUnlockDatabase(t)
  \/ \E t \in Tasks : taskDidInitialize(t)
  \/ \E t \in Tasks : taskFinally(t)
  \/ \E t \in Tasks : taskStoreCall(t)
  \/ \E t \in Tasks : taskReturns(t)

SpecRace == InitObserved /\ [][NextRace]_vars

\* SpecProcesses: two instances (processes) opened against the same store,
\* each with a client that awaits every call before it makes the next
Settled(t) == tasks[t].pc \in {"idle", "done", "failed"}

NextProcesses ==
  \/ \E t \in Tasks, i \in Instances, op \in TaskOps :
       /\ \A u \in Tasks : Settled(u) \/ tasks[u].inst # i
       /\ taskCallsOn(t, i, op)
  \/ \E t \in Tasks : taskInitializeObjectDatabase(t)
  \/ \E t \in Tasks : taskCreateRepositoryIfDoesNotExist(t)
  \/ \E t \in Tasks : taskLockDatabase(t)
  \/ \E t \in Tasks : taskUpgradeRepository(t)
  \/ \E t \in Tasks : taskSaveRepositoryRecord(t)
  \/ \E t \in Tasks : taskUnlockDatabase(t)
  \/ \E t \in Tasks : taskDidInitialize(t)
  \/ \E t \in Tasks : taskFinally(t)
  \/ \E t \in Tasks : taskStoreCall(t)
  \/ \E t \in Tasks : taskReturns(t)

SpecProcesses == InitObserved /\ [][NextProcesses]_vars

\* SpecView: one instance, the only user of its store, with a client that
\* makes one call at a time; inside a transaction body it calls the view it
\* was given or the root repository
NextView ==
  \/ Idle /\ \E h \in {"root", CurrentHandle}, k \in Keys :
               putItem(h, "Person", k, MaxValue, FALSE, "unset")
  \/ Idle /\ \E h \in {"root", CurrentHandle}, k \in Keys : deleteItem(h, "Account", k, "false")
  \/ Idle /\ \E h \in {"root", CurrentHandle} : getRepositoryId(1, h)
  \/ Idle /\ transactionBegin("root")
  \/ Idle /\ transactionReturn
  \/ Idle /\ transactionRaise
  \/ Idle /\ destroyRepositoryInView
  \/ resultConsumed

SpecView == Init /\ [][NextView]_vars

\* SpecViewRace: calls of the root racing as in SpecRace, and a client that
\* starts a transaction while one of them is under way and reads through
\* its view
NextViewRace ==
  \/ NextRace
  \/ Idle /\ (\E t \in Tasks : ~Settled(t)) /\ transactionBegin("root")
  \/ Idle /\ tx.open /\ \E k \in Keys : getItem(tx.handle, "Account", k, "false")
  \/ Idle /\ transactionReturn
  \/ resultConsumed

SpecViewRace == Init /\ [][NextViewRace]_vars

\* SpecForEach: a client that stores items and then iterates over them or
\* deletes them by query, one call at a time; a store call may fail
Scanning == {u \in Tasks : tasks[u].pc # "idle"}

NextForEach ==
  \/ Idle /\ Scanning = {}
          /\ \E c \in {"Person", "Company"}, k \in Keys, v \in Values :
               putItem("root", c, k, v, FALSE, "unset")
  \/ resultConsumed
  \/ \E t \in Tasks, op \in IterateOps :
       Idle /\ Scanning = {} /\ hasBeenInitialized /\ taskCalls(t, op)
  \/ \E t \in Tasks, q \in Queries, b \in 1..NumKeys : taskForEachItems(t, "Account", q, b)
  \/ \E t \in Tasks : taskStoreYields(t)
  \/ \E t \in Tasks, raises \in BOOLEAN : taskFnEnds(t, raises)
  \/ \E t \in Tasks : taskStoreFails(t)
  \/ \E t \in Tasks : taskReturns(t)

SpecForEach == Init /\ [][NextForEach]_vars

\* SpecScan: a findAndDeleteItems call and a second one over the same query,
\* started without awaiting the first, while the client goes on putting and
\* deleting items
NextScan ==
  \/ Idle /\ \E k \in Keys : putItem("root", "Person", k, MaxValue, FALSE, "unset")
  \/ Idle /\ \E k \in Keys : deleteItem("root", "Account", k, "false")
  \/ resultConsumed
  \/ \E t \in Tasks :
       /\ Idle /\ hasBeenInitialized
       /\ \A u, v \in Scanning : u = v
       /\ \A u \in Tasks : u < t => u \in Scanning
       /\ taskCalls(t, "findAndDeleteItems")
  \/ Idle /\ \E t \in Tasks : taskForEachItems(t, "Account", NoQuery, NumKeys)
  \/ Idle /\ \E t \in Tasks : taskStoreYields(t)
  \/ Idle /\ \E t \in Tasks : taskFnEnds(t, FALSE)
  \/ Idle /\ \E t \in Tasks : taskReturns(t)

SpecScan == Init /\ [][NextScan]_vars

\* SpecRespire: bulk calls on the root over up to MaxResults results.  The
\* client awaits its first call, which initialises the repository.  Then the
\* calls over a number of results next to a multiple of RESPIRATION_RATE are
\* started without awaiting one another, all reading the same records; a call
\* over any other number of results is awaited before the next is made.
NextToMultiple(n) == n % RESPIRATION_RATE \in {0, 1, RESPIRATION_RATE - 1}

Reading(t) == tasks[t].pc \in {"loop", "done"}

NextRespire ==
  \/ \E t \in Tasks, op \in BulkOps :
       /\ hasBeenInitialized \/ \A u \in Tasks : tasks[u].pc = "idle"
       /\ \A u \in Tasks : Reading(u) => NextToMultiple(tasks[u].n)
       /\ taskCalls(t, op)
  \/ \E t \in Tasks : taskInitializeObjectDatabase(t)
  \/ \E t \in Tasks : taskCreateRepositoryIfDoesNotExist(t)
  \/ \E t \in Tasks : taskLockDatabase(t)
  \/ \E t \in Tasks : taskUpgradeRepository(t)
  \/ \E t \in Tasks : taskSaveRepositoryRecord(t)
  \/ \E t \in Tasks : taskUnlockDatabase(t)
  \/ \E t \in Tasks : taskDidInitialize(t)
  \/ \E t \in Tasks : taskFinally(t)
  \/ \E t \in Tasks :
       /\ tasks[t].pc = "initialized"
       /\ \E n \in 0..MaxResults :
            /\ \/ NextToMultiple(n) /\ \A u \in Tasks : Reading(u) => tasks[u].n = n
               \/ \A u \in Tasks \ {t} : tasks[u].pc = "idle"
            /\ taskResults(t, n)
  \/ \E t \in Tasks : taskLoop(t)
  \/ \E t \in Tasks : taskReturns(t)

SpecRespire == Init /\ [][NextRespire]_vars

\* SpecDelivery: the same, with listeners that finish asynchronously
NextDelivery ==
  \/ NextProcesses
  \/ \E name \in observer.pending : deliveryCompletes(name)

SpecDelivery == InitObserved /\ [][NextDelivery]_vars

----------------------------------------------------------------------------
(* Properties                                                              *)

\* the client has stored an item under key k that belongs to class c
KnownIn(c, k) == IsItem(known[k]) /\ InChain(ClassNames(known[k].class), c)

\* the keys the client has stored that belong to class c and match the query
KnownVisible(c, query) ==
  {k \in Keys : /\ IsItem(known[k])
                /\ InChain(ClassNames(known[k].class), c)
                /\ (query = NoQuery \/ known[k].value = query)}

\* C1: put-then-get round trip.  After putItem(x) succeeded, getItem of x's key
\* through x's own collection succeeds and returns one item carrying that key
\* and the property values that were put.
C1_PutThenGet ==
  (last.op = "getItem" /\ IsItem(last.prior) /\ last.cls = last.prior.class)
    => /\ last.outcome = "ok"
       /\ Len(last.items) = 1
       /\ last.items[1].key = last.key
       /\ last.items[1].value = last.prior.value

C1_Witness ==
  /\ last.op = "getItem"
  /\ last.cls = "Person"
  /\ last.prior = [class |-> "Person", value |-> MaxValue]
  /\ Len(last.items) = 1
  /\ last.items[1].value = MaxValue

\* C2: transaction atomicity.  When the body of a transaction started on the
\* root raises, transaction() leaves the committed store exactly as it was
\* when the transaction started, whatever was put or deleted through the view.
C2_AbortedTransactionInvisible ==
  (last.op = "transaction" /\ last.outcome = "UserError")
    => /\ db = last.before
       /\ ~tx.open

C2_Witness ==
  /\ last.op = "transaction"
  /\ last.outcome = "UserError"
  /\ \E k \in last.touched : last.store[k] # NoRecord /\ last.store[k] # db[k]
  /\ \E k \in last.touched : last.store[k] = NoRecord /\ db[k] # NoRecord

\* C3: read-your-writes and commit.  A getItem through a handle returns the
\* item last put through that scope (inside the body: through the view; on the
\* root: including what a body that returned normally has put), and a
\* transaction whose body returns leaves every key it wrote holding the value
\* written.
C3_ReadYourWritesAndCommit ==
  /\ (last.op = "getItem" /\ IsItem(last.prior)
        /\ InChain(ClassNames(last.prior.class), last.cls))
       => /\ last.outcome = "ok"
          /\ Len(last.items) = 1
          /\ last.items[1].class = last.prior.class
          /\ last.items[1].value = last.prior.value
  /\ (last.op = "transaction" /\ last.outcome = "ok")
       => \A k \in last.touched : db[k] = last.store[k]

C3_Witness ==
  /\ tx.open
  /\ last.op = "getItem"
  /\ last.inside
  /\ last.key \in tx.touched
  /\ tx.store[last.key] # db[last.key]
  /\ Len(last.items) = 1
  /\ last.items[1].value = unserialize(tx.store[last.key].value)

\* C4: polymorphic materialisation.  getItem of a stored item of class D,
\* requested through any class of D's chain, returns an item of class D; it is
\* the very item passed in, its value replaced, when the requested class is D,
\* and a new item (the passed one untouched) otherwise.
C4_PolymorphicGet ==
  (last.op = "getItem" /\ IsItem(last.prior)
     /\ InChain(ClassNames(last.prior.class), last.cls))
    => /\ last.outcome = "ok"
       /\ Len(last.items) = 1
       /\ last.items[1].class = last.prior.class
       /\ (last.cls = last.prior.class
             => last.items[1].obj = "arg" /\ last.arg = last.prior.value)
       /\ (last.cls # last.prior.class
             => last.items[1].obj = "fresh" /\ last.arg = EmptyValue)

C4_Witness ==
  /\ last.op = "getItem"
  /\ last.cls = "Element"
  /\ Len(last.items) = 1
  /\ last.items[1].class = "Person"
  /\ last.items[1].obj = "fresh"

\* C5: cross-class membership.  findItems and forEachItems over a class return
\* exactly the stored items whose class chain contains that class (and that
\* match the query), and countItems counts them; a deleted item is among none.
C5_CrossClassMembership ==
  /\ (last.op \in {"findItems", "forEachItems"} /\ hasBeenInitialized)
       => /\ last.outcome = "ok"
          /\ ItemKeys(last.items) = KnownVisible(last.cls, last.query)
          /\ Len(last.items) = Cardinality(KnownVisible(last.cls, last.query))
          /\ \A i \in DOMAIN last.items :
               last.items[i].class = known[last.items[i].key].class
  /\ (last.op = "countItems" /\ hasBeenInitialized)
       => /\ last.outcome = "ok"
          /\ last.n = Cardinality(KnownVisible(last.cls, last.query))

C5_Witness ==
  /\ last.op = "findItems"
  /\ last.cls = "Account"
  /\ last.query = NoQuery
  /\ Len(last.items) = 2
  /\ last.items[1].class = "Person"
  /\ last.items[2].class = "Company"

\* C6: putItem of a new item (isNew) whose key is already stored fails with
\* AlreadyExists whatever errorIfExists the caller passed; no didPutItem is
\* emitted and the stored item is unchanged.
C6_NewItemOnExistingKey ==
  (last.op = "putItem" /\ last.isNew /\ IsItem(last.prior))
    => /\ last.outcome = "AlreadyExists"
       /\ \A i \in DOMAIN last.ev : last.ev[i] # "didPutItem"
       /\ known[last.key] = last.prior
       /\ db[last.key] = [classes |-> ClassNames(last.prior.class),
                          value |-> serialize(last.prior.value)]

C6_Witness ==
  /\ last.op = "putItem"
  /\ last.isNew
  /\ last.errorIfExists = "false"
  /\ last.outcome = "AlreadyExists"
  /\ IsItem(last.prior)
  /\ last.value # last.prior.value

\* C7: deleteItem of a key that is not stored fails with NotFound when
\* errorIfMissing is true or unspecified and returns false when it is false;
\* either way the store is unchanged.
C7_DeleteMissing ==
  /\ []((last.op = "deleteItem" /\ ~IsItem(last.prior) /\ hasBeenInitialized)
          => /\ last.errorIfMissing # "false" => last.outcome = "NotFound"
             /\ last.errorIfMissing = "false" => (last.outcome = "ok" /\ ~last.flag))
  /\ [][(last'.op = "deleteItem" /\ ~IsItem(last'.prior)) => db' = db]_vars

C7_Witness ==
  /\ last.op = "deleteItem"
  /\ ~IsItem(last.prior)
  /\ last.errorIfMissing = "false"
  /\ last.outcome = "ok"
  /\ ~last.flag
  /\ \E k \in Keys : db[k] # NoRecord

\* C8: getItem of a key that is not stored fails with NotFound when
\* errorIfMissing is true or unspecified and returns undefined when it is
\* false; either way the item passed in keeps its value and the store is
\* unchanged.
C8_GetMissing ==
  /\ []((last.op = "getItem" /\ ~IsItem(last.prior) /\ hasBeenInitialized)
          => /\ last.errorIfMissing # "false" => last.outcome = "NotFound"
             /\ last.errorIfMissing = "false" => last.outcome = "ok"
             /\ last.items = <<>>
             /\ last.arg = EmptyValue)
  /\ [][(last'.op = "getItem" /\ ~IsItem(last'.prior)) => db' = db]_vars

C8_Witness ==
  /\ last.op = "getItem"
  /\ last.prior = NoItem
  /\ last.errorIfMissing = "false"
  /\ last.outcome = "ok"
  /\ last.items = <<>>
  /\ \E k \in Keys : db[k] # NoRecord

\* C9: put-then-delete-then-get.  Once deleteItem has returned true for a key,
\* getItem of that key with errorIfMissing=false returns undefined, through
\* every class.
C9_PutDeleteGet ==
  (last.op = "getItem" /\ last.prior = DeletedItem /\ last.errorIfMissing = "false")
    => /\ last.outcome = "ok"
       /\ last.items = <<>>

C9_Witness ==
  /\ last.op = "getItem"
  /\ last.prior = DeletedItem
  /\ last.errorIfMissing = "false"
  /\ last.cls = "Element"
  /\ last.outcome = "ok"
  /\ last.items = <<>>

\* C10: isInsideTransaction is false on the root repository in every state,
\* true on the handle passed to a transaction body for as long as the body
\* runs, and every call observes it as the inequality of its handle and the
\* root.
C10_IsInsideTransaction ==
  /\ ~isInsideTransaction("root")
  /\ tx.open => isInsideTransaction(tx.handle)
  /\ last.inside <=> (last.h # "root")
  /\ (tx.open /\ last.op \in {"getItem", "putItem", "deleteItem", "findItems", "countItems"})
       => last.inside

C10_Witness ==
  /\ tx.open
  /\ last.op = "putItem"
  /\ last.outcome = "ok"
  /\ last.inside

\* C11: flat nesting.  transaction(fn) called on a transactional view invokes
\* fn with that same view, opens no store transaction and does not call
\* initializeRepository (it emits nothing and changes no flag); so however
\* deep the chain of nested transaction() calls, one store transaction is open.
C11_FlatNesting ==
  /\ tx.opened <= 1
  /\ tx.open <=> tx.opened = 1
  /\ tx.depth >= 1 <=> tx.open
  /\ (last.op = "transaction" /\ last.h = "view" /\ last.outcome = "running")
       => /\ last.fn = last.h
          /\ ~last.calledInitialize
          /\ last.ev = <<>>
          /\ tx.depth >= 2

C11_Witness ==
  /\ last.op = "transaction"
  /\ last.h = "view"
  /\ last.outcome = "running"
  /\ tx.depth = 3
  /\ tx.opened = 1
  /\ tx.touched # {}

\* the number of times the listener has heard an event
Emitted(name) ==
  Cardinality({i \in DOMAIN observer.events : observer.events[i].name = name})

\* C12: idempotence of initialize.  However many initializeRepository calls
\* are made on one instance, directly or by operations, one after another or
\* started concurrently, didInitialize is emitted at most once, and exactly
\* once when the instance is initialised and no initialisation is running.
C12_SingleDidInitialize ==
  /\ Emitted("didInitialize") <= 1
  /\ (hasBeenInitialized /\ ~isInitializing) => Emitted("didInitialize") = 1
  /\ ~hasBeenInitialized => Emitted("didInitialize") = 0

C12_Witness ==
  /\ Emitted("didInitialize") = 1
  /\ ~isInitializing
  /\ \A t \in Tasks : tasks[t].pc = "done"
  /\ \E t \in Tasks : tasks[t].op = "initializeRepository" /\ ~tasks[t].initialized
  /\ \E t \in Tasks : tasks[t].op = "initializeRepository" /\ tasks[t].initialized

\* C13: initialisation precedes store access.  In every interleaving of
\* operations started concurrently on one repository, an operation issues its
\* object-store call only once hasBeenInitialized is true.
C13_InitPrecedesStoreAccess ==
  \A t \in Tasks :
    (tasks[t].pc = "done" /\ tasks[t].op # "initializeRepository") => tasks[t].initialized

\* C14: every operation first calls initializeRepository, whatever its input,
\* getItems with an empty list included: once any of them has returned
\* successfully on the root, hasBeenInitialized is true and the repository
\* record exists.
C14_EveryOperationInitializes ==
  (last.op \in PolymorphicOps /\ last.h = "root" /\ last.outcome = "ok")
    => /\ last.calledInitialize
       /\ hasBeenInitialized
       /\ repositoryRecord # NoRepositoryRecord

\* the stored items a query over class c with the given query selects: those
\* of c and of the classes derived from it
Selected(s, c, query) ==
  {k \in Keys : /\ s[k] # NoRecord
                /\ InChain(s[k].classes, c)
                /\ (query = NoQuery \/ unserialize(s[k].value) = query)}

\* C20: findAndDeleteItems, with no other writer, returns the number of
\* stored items its options select (items of the class and of its derived
\* classes), leaves none of them in the store and every other item as it was;
\* run again with the same options it returns 0.
C20_FindAndDeleteItems ==
  (last.op = "findAndDeleteItems" /\ last.outcome = "ok")
    => /\ last.n = Cardinality(Selected(last.before, last.cls, last.query))
       /\ Selected(db, last.cls, last.query) = {}
       /\ \A k \in Selected(last.before, last.cls, last.query) : db[k] = NoRecord
       /\ \A k \in Keys \ Selected(last.before, last.cls, last.query) :
            db[k] = last.before[k]
       /\ last.flag => last.n = 0

C20_Witness ==
  /\ last.op = "findAndDeleteItems"
  /\ last.outcome = "ok"
  /\ last.cls = "Account"
  /\ last.query # NoQuery
  /\ last.flag
  /\ last.n = 0
  /\ \E k \in Keys : known[k] = DeletedItem
  /\ \E k \in Keys : db[k] # NoRecord /\ InChain(db[k].classes, "Account")

\* C15 as stated: once the cached _repositoryId of an instance is populated it
\* holds that same value in every later state, destroyRepository and the
\* operations after it included.
C15_RepositoryIdImmutable ==
  [][_repositoryId # NoRepositoryId => _repositoryId' = _repositoryId]_vars

\* C15 as amended: once populated, the cached _repositoryId of an instance keeps
\* its value until destroyRepository is called on that instance, which clears
\* it; it is populated by getRepositoryId on that instance alone, with the id
\* of the record in the store.
C15_RepositoryIdUntilDestroy ==
  /\ [][(_repositoryId # NoRepositoryId /\ _repositoryId' # _repositoryId)
          => /\ last'.op = "destroyRepository"
             /\ last'.inst = 1
             /\ _repositoryId' = NoRepositoryId]_vars
  /\ [][(second._repositoryId # NoRepositoryId /\ second'._repositoryId # second._repositoryId)
          => /\ last'.op = "destroyRepository"
             /\ last'.inst = 2
             /\ second'._repositoryId = NoRepositoryId]_vars
  /\ [][(_repositoryId = NoRepositoryId /\ _repositoryId' # NoRepositoryId)
          => /\ last'.op = "getRepositoryId"
             /\ last'.inst = 1
             /\ _repositoryId' = repositoryRecord'.id]_vars

\* the first instance holds an id again after it has destroyed the repository
\* it had cached the id of, and the second instance still holds the old one
C15_Witness ==
  /\ _repositoryId # NoRepositoryId
  /\ second._repositoryId # NoRepositoryId
  /\ _repositoryId # second._repositoryId
  /\ _repositoryId = repositoryRecord.id

\* C16: repository-id round trip.  Once the repository record exists, every
\* getRepositoryId that returns gives the id stored in the record: through the
\* root, through a transactional view, and through a second instance opened
\* against the same store; the stored id never changes, so every later call
\* returns the same value.
C16_RepositoryIdRoundTrip ==
  /\ []((last.op = "getRepositoryId" /\ last.outcome = "ok")
          => /\ last.value # NoRepositoryId
             /\ last.value = repositoryRecord.id
             /\ InstanceRepositoryId(last.inst) = last.value)
  /\ [](\A i \in Instances :
          getRepositoryIdCached(InstanceRepositoryId(i))
            => InstanceRepositoryId(i) = repositoryRecord.id)
  /\ [][repositoryRecord # NoRepositoryRecord
          => repositoryRecord'.id = repositoryRecord.id]_vars

\* the view returns the id the second instance has read from the record
C16_Witness ==
  /\ last.op = "getRepositoryId"
  /\ last.outcome = "ok"
  /\ last.inside
  /\ last.value = second._repositoryId
  /\ second.hasBeenInitialized
  /\ tx.touched # {}

EventNames == [i \in DOMAIN observer.events |-> observer.events[i].name]

\* C17: destroyRepository on the root emits willDestroy while the store and
\* the fields are still as they were, then destroys the object database, then
\* clears hasBeenInitialized and _repositoryId and emits didDestroy; the
\* operation called next initialises again: it finds no record, creates one and
\* emits didCreate followed by didInitialize.
C17_DestroyThenReinitialize ==
  /\ [][(last'.op = "destroyRepository" /\ last'.pc = "destroyObjectDatabase")
          => /\ observer'.events = observer.events \o <<EventOf("willDestroy", NoLast)>>
             /\ UNCHANGED <<db, repositoryRecord, hasBeenInitialized, _repositoryId>>]_vars
  /\ [][(last'.op = "destroyRepository" /\ last'.pc = "didDestroy")
          => /\ EventNames[Len(EventNames)] = "willDestroy"
             /\ db' = EmptyDb
             /\ repositoryRecord' = NoRepositoryRecord
             /\ UNCHANGED <<observer, hasBeenInitialized, _repositoryId>>]_vars
  /\ [][(last'.op = "destroyRepository" /\ last'.pc = "return")
          => /\ db = EmptyDb /\ repositoryRecord = NoRepositoryRecord
             /\ ~hasBeenInitialized'
             /\ _repositoryId' = NoRepositoryId
             /\ observer'.events = observer.events \o <<EventOf("didDestroy", NoLast)>>
             /\ UNCHANGED <<db, repositoryRecord>>]_vars
  /\ []((last.op = "destroyRepository" /\ last.outcome = "ok")
          => /\ ~hasBeenInitialized
             /\ _repositoryId = NoRepositoryId
             /\ db = EmptyDb /\ repositoryRecord = NoRepositoryRecord
             /\ last.ev = <<"willDestroy", "didDestroy">>)
  /\ [](\A i \in DOMAIN EventNames :
          (EventNames[i] = "didDestroy" /\ i < Len(EventNames) /\ EventNames[i + 1] # "willDestroy")
            => /\ i + 2 <= Len(EventNames)
               /\ EventNames[i + 1] = "didCreate"
               /\ EventNames[i + 2] = "didInitialize")
  /\ []((last.op \in {"putItem", "getItem", "getRepositoryId"} /\ last.outcome = "ok")
          => hasBeenInitialized /\ repositoryRecord # NoRepositoryRecord)

\* a put right after destroyRepository creates the record again, under a new id
C17_Witness ==
  /\ last.op = "putItem"
  /\ last.ev = <<"didCreate", "didInitialize", "didPutItem">>
  /\ Len(EventNames) >= 5
  /\ EventNames[Len(EventNames) - 3] = "didDestroy"
  /\ EventNames[Len(EventNames) - 4] = "willDestroy"
  /\ repositoryRecord.id > NewRepositoryId
  /\ hasBeenInitialized

\* how many times a call has emitted an event
EmittedBy(call, name) == Cardinality({i \in DOMAIN call.ev : call.ev[i] = name})

\* C18: item events match store effects.  deleteItem emits didDeleteItem
\* exactly when the store deleted the item, which is when it returns true;
\* putItem emits didPutItem once when its store write succeeded and not at all
\* when it failed; so, outside transactions, the listener has heard as many
\* didDeleteItem events as deletes have returned true, and as many didPutItem
\* events as puts have succeeded.
C18_ItemEventsMatchStore ==
  /\ [](last.op = "deleteItem"
          => EmittedBy(last, "didDeleteItem")
               = IF last.outcome = "ok" /\ last.flag THEN 1 ELSE 0)
  /\ [](last.op = "putItem"
          => EmittedBy(last, "didPutItem") = IF last.outcome = "ok" THEN 1 ELSE 0)
  /\ [][last'.op = "deleteItem"
          => (EmittedBy(last', "didDeleteItem") = 1
                <=> (db[last'.key] # NoRecord /\ db'[last'.key] = NoRecord))]_vars
  /\ [][last'.op = "putItem"
          => IF EmittedBy(last', "didPutItem") = 1
             THEN db'[last'.key] = [classes |-> ClassNames(last'.cls),
                                    value |-> serialize(last'.value)]
             ELSE db' = db]_vars
  /\ [](Emitted("didDeleteItem") = observer.deleted)
  /\ [](Emitted("didPutItem") = observer.put)

\* a delete of a missing item with errorIfMissing=false: false, and no event,
\* after deletes that returned true
C18_Witness ==
  /\ last.op = "deleteItem"
  /\ last.errorIfMissing = "false"
  /\ last.outcome = "ok"
  /\ ~last.flag
  /\ observer.deleted >= 1
  /\ Emitted("didDeleteItem") = observer.deleted
  /\ observer.put >= 1

\* the listener has heard didPutItem / didDeleteItem for key k
HeardItem(name, k, v) ==
  \E i \in DOMAIN observer.events :
    observer.events[i] = [name |-> name, key |-> k, value |-> v]

\* C19: a failed transaction does not undo events.  When the body raises and
\* the store writes are rolled back, the listener still holds every didPutItem
\* and didDeleteItem emitted inside the body: the abort removes nothing from
\* what it has heard, so it can hold a didPutItem for a value that is not in
\* the store.
C19_AbortKeepsEvents ==
  /\ [][(last'.op = "transaction" /\ last'.outcome = "UserError")
          => observer' = observer /\ db' = last'.before]_vars
  /\ []((last.op = "transaction" /\ last.outcome = "UserError")
          => \A k \in last.touched :
               IF last.store[k] # NoRecord
               THEN HeardItem("didPutItem", k, unserialize(last.store[k].value))
               ELSE HeardItem("didDeleteItem", k, 0))
  /\ [][\A i \in DOMAIN observer.events :
          i \in DOMAIN observer'.events /\ observer'.events[i] = observer.events[i]]_vars

C19_Witness ==
  /\ last.op = "transaction"
  /\ last.outcome = "UserError"
  /\ \E k \in last.touched :
       /\ last.store[k] # NoRecord
       /\ db[k] # last.store[k]
       /\ HeardItem("didPutItem", k, unserialize(last.store[k].value))
       /\ ~HeardItem("didPutItem", k, unserialize(db[k].value))

\* C24: getItems returns an empty list for an empty input; otherwise it
\* returns one item per record the store's bulk get returns, in the order of
\* the requested keys, each a new item of the class the record was stored
\* under (its classes[0]) carrying the stored value, so that base and derived
\* items come side by side; a requested key that is not stored fails the call
\* with NotFound unless errorIfMissing is false, and is then left out.
C24_GetItems ==
  LET stored == SelectSeq(last.keys, LAMBDA k : KnownIn(last.cls, k)) IN
  /\ (last.op = "getItems" /\ last.keys = <<>>)
       => last.outcome = "ok" /\ last.items = <<>>
  /\ (last.op = "getItems" /\ last.keys # <<>> /\ hasBeenInitialized)
       => IF last.errorIfMissing # "false" /\ stored # last.keys
          THEN last.outcome = "NotFound" /\ last.items = <<>>
          ELSE /\ last.outcome = "ok"
               /\ Len(last.items) = Len(stored)
               /\ \A i \in DOMAIN stored :
                    last.items[i] = [obj |-> "fresh", class |-> known[stored[i]].class,
                                     key |-> stored[i], value |-> known[stored[i]].value]

\* a request through Account for key 2 then key 1 returns a Company and a
\* Person, in that order
C24_Witness ==
  /\ last.op = "getItems"
  /\ last.cls = "Account"
  /\ last.keys = <<2, 1>>
  /\ last.outcome = "ok"
  /\ Len(last.items) = 2
  /\ last.items[1].key = 2 /\ last.items[1].class = "Company"
  /\ last.items[2].key = 1 /\ last.items[2].class = "Person"

\* the tasks between lockDatabase() and the end of unlockDatabase()
InsideLock(t) ==
  tasks[t].pc \in {"upgradeRepository", "saveRepositoryRecord", "unlockDatabase"}

\* C29: lock discipline of initialize.  initializeRepository takes the
\* database-wide lock exactly when createRepositoryIfDoesNotExist found the
\* record already there; it holds it while upgradeRepository runs and has
\* released it when initializeRepository terminates, whether upgradeRepository
\* returned or raised: the lock is held by no call that is not between
\* lockDatabase and unlockDatabase.
C29_LockDiscipline ==
  /\ [](\A t \in Tasks : InsideLock(t) <=> lock = t)
  /\ [](lock # NoLock => ~tasks[lock].hasBeenCreated)
  /\ [][\A t \in Tasks :
          (tasks[t].pc = "createRepositoryIfDoesNotExist" /\ tasks'[t].pc # tasks[t].pc)
            => IF repositoryRecord # NoRepositoryRecord
               THEN tasks'[t].pc = "lockDatabase" /\ ~tasks'[t].hasBeenCreated
               ELSE tasks'[t].pc = "didInitialize" /\ tasks'[t].hasBeenCreated]_vars
  /\ [][\A t \in Tasks :
          (tasks[t].pc = "lockDatabase" /\ tasks'[t].pc # tasks[t].pc)
            => lock = NoLock /\ lock' = t /\ InsideLock(t)']_vars
  /\ [][\A t \in Tasks :
          (tasks'[t].pc \in {"initialized", "failed"} /\ tasks'[t].pc # tasks[t].pc)
            => lock' # t /\ (tasks[t].pc = "finally" => ~isInitializing')]_vars

\* upgradeRepository raised under the lock, and the call has ended with the
\* lock free
C29_Witness ==
  \E t \in Tasks :
    /\ tasks[t].pc = "failed"
    /\ tasks[t].err = "CannotDowngrade"
    /\ ~tasks[t].hasBeenCreated
    /\ lock = NoLock
    /\ ~isInitializing

\* C30: mutual exclusion of upgrades.  With two instances initialising
\* concurrently against the same store, at most one call is inside
\* upgradeRepository in any state, and it is the holder of the database lock.
C30_UpgradeMutualExclusion ==
  /\ Cardinality({t \in Tasks :
                    tasks[t].pc \in {"upgradeRepository", "saveRepositoryRecord"}}) <= 1
  /\ \A t \in Tasks :
       tasks[t].pc \in {"upgradeRepository", "saveRepositoryRecord"} => lock = t

\* one process is about to upgrade the record while the other, which found
\* the same record, waits for the lock
C30_Witness ==
  \E t, u \in Tasks :
    /\ tasks[t].inst # tasks[u].inst
    /\ tasks[t].pc = "upgradeRepository"
    /\ tasks[u].pc = "lockDatabase"
    /\ repositoryRecord.version < VERSION

\* C27: a record newer than VERSION.  While the store holds a record with
\* version > VERSION, every initializeRepository fails with CannotDowngrade:
\* the record is left as it is, hasBeenInitialized stays false, isInitializing
\* is false again and the lock is free when the call ends, no didInitialize,
\* upgradeDidStart or upgradeDidStop is emitted, and no later call gets past
\* initializeRepository: each fails the same way.
C27_CannotDowngrade ==
  /\ [](repositoryRecord.version > VERSION
          => /\ ~hasBeenInitialized /\ ~second.hasBeenInitialized
             /\ Emitted("didInitialize") = 0
             /\ Emitted("upgradeDidStart") = 0
             /\ Emitted("upgradeDidStop") = 0
             /\ \A t \in Tasks :
                  /\ tasks[t].pc \notin {"didInitialize", "initialized", "done"}
                  /\ tasks[t].pc = "failed" => tasks[t].err = "CannotDowngrade")
  /\ [][repositoryRecord.version > VERSION => repositoryRecord' = repositoryRecord]_vars
  /\ [][\A t \in Tasks :
          (tasks'[t].pc = "failed" /\ tasks[t].pc # "failed")
            => /\ lock' # t
               /\ ~(IF tasks[t].inst = 1 THEN isInitializing' ELSE second'.isInitializing)
               /\ ~InstanceInitialized(tasks[t].inst)']_vars
  /\ [](\A t \in Tasks : tasks[t].pc = "failed" => repositoryRecord.version > VERSION)

\* an initializeRepository and, after it, a getItem on the same instance have
\* both failed
C27_Witness ==
  \E t, u \in Tasks :
    /\ tasks[t].inst = 1 /\ tasks[u].inst = 1
    /\ tasks[t].op = "initializeRepository" /\ tasks[u].op = "getItem"
    /\ tasks[t].pc = "failed" /\ tasks[u].pc = "failed"
    /\ tasks[t].err = "CannotDowngrade" /\ tasks[u].err = "CannotDowngrade"
    /\ lock = NoLock
    /\ ~isInitializing

\* C28: event emission completes before the emitting operation returns.  When
\* an operation has returned to its caller, the delivery of every event it
\* emitted has finished.
C28_EmissionCompletesBeforeReturn ==
  \A t \in Tasks :
    tasks[t].pc = "done" => tasks[t].emitted \cap observer.pending = {}

\* C25: respiration in bulk reads.  A getItems or findItems call that
\* processes n results awaits util.timeout(0) once after each
\* RESPIRATION_RATE-th result and nowhere else: floor(n / RESPIRATION_RATE)
\* times by its end; while it is suspended there, after a multiple of
\* RESPIRATION_RATE results, the other calls run.
C25_Respiration ==
  \A t \in Tasks :
    tasks[t].op \in {"getItems", "findItems"}
      => /\ tasks[t].pc = "done"
              => /\ tasks[t].cursor = tasks[t].n
                 /\ tasks[t].yields = tasks[t].n \div RESPIRATION_RATE
         /\ tasks[t].pc = "loop"
              => /\ tasks[t].cursor % RESPIRATION_RATE = 0
                 /\ tasks[t].cursor <= tasks[t].n
                 /\ tasks[t].yields = tasks[t].cursor \div RESPIRATION_RATE

\* one call has ended after two yields; another, started while the first was
\* suspended, is itself suspended after its first RESPIRATION_RATE results
C25_Witness ==
  \E t, u \in Tasks :
    /\ tasks[t].op = "getItems" /\ tasks[t].pc = "done"
    /\ tasks[t].n = 2 * RESPIRATION_RATE /\ tasks[t].yields = 2
    /\ tasks[u].op = "findItems" /\ tasks[u].pc = "loop"
    /\ tasks[u].cursor = RESPIRATION_RATE /\ tasks[u].yields = 1

\* C26: forEachItems respires as getItems and findItems do.  A forEachItems
\* over n records whose handler never suspends has awaited util.timeout(0)
\* floor(n / RESPIRATION_RATE) times by its end.
C26_ForEachItemsRespires ==
  \A t \in Tasks :
    (tasks[t].op = "forEachItems" /\ tasks[t].pc = "done")
      => tasks[t].yields = tasks[t].n \div RESPIRATION_RATE

\* the keys of a sequence of records read from the store
KeysOf(records) == [i \in DOMAIN records |-> records[i].key]

IsAscending(keys) == \A i, j \in DOMAIN keys : i < j => keys[i] < keys[j]

Iterating(t) == tasks[t].op = "forEachItems" /\ tasks[t].pc \in {"iterate", "handler", "done", "failed"}

\* C23: forEachItems calls fn once for each record the store yields, in the
\* store's key order; fn for the next record starts only when fn for the
\* previous one has ended, so at most one fn is in flight; when the call is
\* done fn has ended for every matching record; when fn raises the call
\* fails with that error and no further record is handled.
C23_BackpressureAndOrder ==
  /\ [](\A t \in Tasks : Iterating(t) =>
          /\ tasks[t].inFlight <= 1
          /\ IsAscending(KeysOf(tasks[t].started))
          /\ KeysOf(tasks[t].handled) = SubSeq(KeysOf(tasks[t].started), 1, Len(tasks[t].handled))
          /\ tasks[t].pc # "failed" => Len(tasks[t].started) = Len(tasks[t].handled) + tasks[t].inFlight
          /\ tasks[t].pc = "done" =>
                KeysOf(tasks[t].handled) = Ascending(StoreMatchingKeys(db, tasks[t].cls, tasks[t].query)))
  /\ [][\A t \in Tasks :
          /\ (Iterating(t) /\ Len(tasks'[t].started) > Len(tasks[t].started))
               => tasks[t].inFlight = 0 /\ Len(tasks[t].handled) = Len(tasks[t].started)
          /\ (Iterating(t) /\ tasks'[t].op = "forEachItems"
                 /\ tasks'[t].inFlight < tasks[t].inFlight
                 /\ tasks'[t].handled = tasks[t].handled)
               => tasks'[t].pc = "failed" /\ tasks'[t].err = "UserError"
          /\ (Iterating(t) /\ tasks[t].pc = "failed")
               => tasks'[t] = tasks[t] \/ tasks'[t] = IdleTask]_vars

\* fn raised on the first of two records the store had read
C23_Witness ==
  \E t \in Tasks :
    /\ tasks[t].op = "forEachItems" /\ tasks[t].pc = "failed"
    /\ tasks[t].err = "UserError"
    /\ Len(tasks[t].started) = 1 /\ tasks[t].handled = <<>>
    /\ tasks[t].batch # <<>>

Deleting(t) == tasks[t].op = "findAndDeleteItems" /\ tasks[t].pc \in {"iterate", "handler", "done", "failed"}

\* C22: findAndDeleteItems on the root is not atomic.  When it fails after
\* deleting k items, those k items are gone from the store, and the matching
\* records it had read and not yet deleted are still stored; the step that
\* fails changes nothing in the store.
C22_NotAtomic ==
  /\ [](\A t \in Tasks : (Deleting(t) /\ tasks[t].pc = "failed") =>
          /\ tasks[t].n = Len(tasks[t].handled)
          /\ \A i \in DOMAIN tasks[t].handled :
                tasks[t].handled[i].gone /\ db[tasks[t].handled[i].key] = NoRecord
          /\ \A i \in DOMAIN tasks[t].batch :
                db[tasks[t].batch[i].key] = tasks[t].batch[i].rec
          /\ \A i \in DOMAIN tasks[t].started :
                i > Len(tasks[t].handled) => db[tasks[t].started[i].key] = tasks[t].started[i].rec)
  /\ [][\A t \in Tasks :
          (Deleting(t) /\ tasks[t].pc # "failed" /\ tasks'[t].pc = "failed") => db' = db]_vars

\* the call failed after one delete, with another matching record still stored
C22_Witness ==
  \E t \in Tasks :
    /\ tasks[t].op = "findAndDeleteItems" /\ tasks[t].pc = "failed"
    /\ tasks[t].err = "StoreError"
    /\ tasks[t].n = 1
    /\ tasks[t].batch # <<>>
    /\ db[tasks[t].batch[1].key] # NoRecord

\* the number of deletes of task t that removed the item from the store
Removed(t) == Len(SelectSeq(tasks[t].handled, LAMBDA e : e.gone))

\* C21: findAndDeleteItems interleaved with puts, deletes and other
\* findAndDeleteItems calls never fails with NotFound; its count is the number
\* of items its own deletes removed; each removal by such a call raises the
\* count of exactly one caller, and a count rises only for a removal.
C21_ConcurrentCounts ==
  /\ [](\A t \in Tasks : Deleting(t) =>
          /\ tasks[t].err # "NotFound"
          /\ tasks[t].pc # "failed"
          /\ tasks[t].n = Removed(t))
  /\ [][LET gone == {k \in Keys : db[k] # NoRecord /\ db'[k] = NoRecord}
            counted == {t \in Tasks : tasks'[t].n > tasks[t].n}
        IN /\ \A t \in counted : tasks'[t].n = tasks[t].n + 1
           /\ last' # last => counted = {}
           /\ last' = last => Cardinality(gone) = Cardinality(counted)]_vars

\* two calls over the same records: each deleted one, each found the other's gone
C21_Witness ==
  \E t, u \in Tasks :
    /\ t # u
    /\ Deleting(t) /\ tasks[t].pc = "done" /\ tasks[t].n = 1 /\ Len(tasks[t].handled) = 2
    /\ Deleting(u) /\ tasks[u].pc = "done" /\ tasks[u].n = 1 /\ Len(tasks[u].handled) = 2

\* C31: the repository record is written with errorIfExists = true by its
\* creation only, and every other write of the record, the save of
\* upgradeRepository, is a put with createIfMissing = false.
C31_RecordWritePolicy ==
  \A t \in Tasks :
    tasks[t].put.written =>
      IF tasks[t].hasBeenCreated
      THEN tasks[t].put.errorIfExists
      ELSE ~tasks[t].put.errorIfExists /\ ~tasks[t].put.createIfMissing

Creating(t) == tasks[t].pc = "createRepositoryIfDoesNotExist"

\* C32: createRepositoryIfDoesNotExist writes the record {version = VERSION,
\* id = idgen(16)} and emits didCreate exactly when it found no record, and
\* returns true then and false otherwise.  With two instances initialising
\* against the same store the record is created at most once, one call only
\* emits didCreate, and the id both instances read is the one written then.
C32_CreatedOnce ==
  /\ [][\A t \in Tasks : (Creating(t) /\ ~Creating(t)') =>
          IF repositoryRecord = NoRepositoryRecord
          THEN /\ tasks'[t].hasBeenCreated
               /\ repositoryRecord' = [version |-> VERSION, id |-> idgen]
               /\ idgen' = idgen + 1
               /\ tasks'[t].emitted = {"didCreate"}
               /\ tasks'[t].put.written /\ tasks'[t].put.errorIfExists
          ELSE /\ ~tasks'[t].hasBeenCreated
               /\ repositoryRecord' = repositoryRecord
               /\ idgen' = idgen
               /\ tasks'[t].emitted = {}
               /\ ~tasks'[t].put.written]_vars
  /\ [][(repositoryRecord # NoRepositoryRecord)
          => repositoryRecord'.id = repositoryRecord.id]_vars
  /\ [](\A t, u \in Tasks : (tasks[t].hasBeenCreated /\ tasks[u].hasBeenCreated) => t = u)
  /\ [](idgen <= NewRepositoryId + 1)
  /\ []((hasBeenInitialized /\ second.hasBeenInitialized)
          => repositoryRecord.id = NewRepositoryId)
  /\ [](Len(SelectSeq(EventNames, LAMBDA e : e = "didCreate")) <= 1)

\* two instances initialising at once against an empty store: one has
\* created the record, the other has found it and waits for the lock
C32_Witness ==
  \E t, u \in Tasks :
    /\ tasks[t].inst # tasks[u].inst
    /\ tasks[t].hasBeenCreated /\ tasks[t].pc = "didInitialize"
    /\ ~tasks[u].hasBeenCreated /\ tasks[u].pc = "lockDatabase"
    /\ repositoryRecord = [version |-> VERSION, id |-> NewRepositoryId]

Upgrading(t) == tasks[t].pc = "upgradeRepository"

Saving(t) == tasks[t].pc = "saveRepositoryRecord"

CountOf(names, name) == Len(SelectSeq(names, LAMBDA e : e = name))

C35_ViewParentAgreement ==
  tx.open =>
    /\ hasBeenInitializedOf(tx.handle) = hasBeenInitializedOf("root")
    /\ objectDatabase("root") = "db"

BetweenOperations == ~tx.open /\ last.pc = "none" /\ last.outcome # "running"

\* C37: with one instance, the only user of its store, making one call at a
\* time: between two operations hasBeenInitialized implies that the
\* repository record is stored with version = VERSION, and isInitializing is
\* false.
C37_InitializedMeansRecord ==
  BetweenOperations =>
    /\ hasBeenInitialized =>
          repositoryRecord # NoRepositoryRecord /\ repositoryRecord.version = VERSION
    /\ ~isInitializing

\* the record the store holds for an item the client has put
RecordOfItem(item) ==
  IF IsItem(item)
  THEN [classes |-> ClassNames(item.class), value |-> serialize(item.value)]
  ELSE NoRecord

RootCall(call) == call.op \in {"putItem", "deleteItem"} /\ call.h = "root" /\ call.outcome = "ok"

\* C39: a putItem or deleteItem made through the root while a transaction
\* opened from it is in progress is no part of the transaction: it changes
\* the committed store at once and leaves the transaction's own writes as
\* they are; the abort of the transaction changes nothing in the committed
\* store, so what the root wrote is still stored after it.
C39_RootWritesOutsideTransaction ==
  /\ [][(tx.open /\ tx'.open /\ last' # last /\ RootCall(last')) =>
          /\ tx'.touched = tx.touched /\ tx'.store = tx.store
          /\ db'[last'.key] = RecordOfItem(known'[last'.key])
          /\ \A k \in Keys \ {last'.key} : db'[k] = db[k]]_vars
  /\ [][(tx.open /\ ~tx'.open /\ last'.outcome = "UserError") => db' = db]_vars
  /\ []((last.op = "transaction" /\ last.outcome = "UserError")
          => \A k \in Keys : db[k] = RecordOfItem(known[k]))

\* the transaction was aborted and an item put through the root meanwhile is stored
C39_Witness ==
  /\ last.op = "transaction" /\ last.outcome = "UserError"
  /\ \E k \in Keys : db[k] # NoRecord /\ last.before[k] = NoRecord
                       /\ db[k] = RecordOfItem(known[k])

Aborted(call) == call.op = "transaction" /\ call.outcome = "UserError"

\* C38: the initialisation made by transaction() is no part of the store
\* transaction it opens afterwards.  When the first operation on a fresh
\* repository is a transaction whose body raises, the repository record
\* created by it stays stored, hasBeenInitialized stays true, didCreate and
\* didInitialize have been heard once each, and only what the body wrote is
\* rolled back.
C38_InitializeOutsideTransaction ==
  /\ [][(last' # last /\ last'.op = "transaction" /\ tx'.open /\ tx'.created) =>
          /\ repositoryRecord = NoRepositoryRecord
          /\ repositoryRecord' = [version |-> VERSION, id |-> idgen]
          /\ hasBeenInitialized'
          /\ EventNames' = EventNames \o <<"didCreate", "didInitialize">>]_vars
  /\ [][(tx.open /\ ~tx'.open /\ Aborted(last')) =>
          /\ repositoryRecord' = repositoryRecord
          /\ hasBeenInitialized' = hasBeenInitialized
          /\ observer' = observer
          /\ db' = db]_vars
  /\ []((Aborted(last) /\ last.flag) =>
          /\ hasBeenInitialized
          /\ repositoryRecord # NoRepositoryRecord /\ repositoryRecord.version = VERSION
          /\ CountOf(EventNames, "didCreate") = 1
          /\ CountOf(EventNames, "didInitialize") = 1
          /\ db = last.before)

\* the first call on a fresh repository was a transaction; its body put an
\* item and raised: the record is stored, the item is not
C38_Witness ==
  /\ Aborted(last) /\ last.flag
  /\ last.touched # {}
  /\ db = EmptyDb
  /\ repositoryRecord = [version |-> VERSION, id |-> NewRepositoryId]
  /\ hasBeenInitialized

\* C40: a nested transaction() has no rollback scope of its own.  When the
\* body of a nested transaction() raises, nothing it wrote is undone; and
\* when the outer body, having caught the error, returns, what the inner body
\* wrote is committed with everything else the transaction wrote.
C40_NoSavepoints ==
  /\ [][(tx.open /\ tx'.open /\ tx'.depth < tx.depth /\ last'.outcome = "UserError") =>
          /\ tx'.touched = tx.touched
          /\ tx'.store = tx.store
          /\ db' = db]_vars
  /\ [][(tx.open /\ ~tx'.open /\ last'.outcome = "ok") =>
          \A k \in tx.touched : db'[k] = tx.store[k]]_vars
  /\ []((last.op = "transaction" /\ last.outcome = "ok" /\ ~tx.open /\ last.h = "root") =>
          \A k \in last.touched : db[k] = last.store[k])

\* the inner body wrote and raised, the outer body goes on: the transaction
\* still holds an item to put, which the outer body's return commits
C40_Witness ==
  /\ last.op = "transaction" /\ last.outcome = "UserError" /\ last.inside
  /\ tx.open /\ tx.depth = 1
  /\ last.inner
  /\ \E k \in tx.touched : tx.store[k] # NoRecord /\ tx.store[k] # db[k]

\* C34: an operation called on a transactional view while hasBeenInitialized
\* reads false fails with 'cannot initialize the repository inside a
\* transaction', and leaves the flags, the lock and the store as they are.
C34_ViewInitializeFails ==
  [][(Idle /\ ~Idle' /\ last'.inside /\ ~hasBeenInitializedOf(last'.h)) =>
       /\ last'.outcome = "InitInsideTransaction"
       /\ UNCHANGED <<hasBeenInitialized, isInitializing, lock, db, tx,
                      repositoryRecord>>]_vars

\* C36: when the store hands back a record whose classes[0] is not a
\* registered class, getItem, getItems, findItems and forEachItems fail with
\* UnknownClass; getItems and findItems return no list, and the store is as
\* it was.
Unregistered(results) ==
  \E i \in DOMAIN results : results[i].rec.classes[1] \notin RegisteredClasses

StoreReturnsUnregistered(call) ==
  CASE call.op = "getItem" ->
         LET r == StoreGetItem(db, call.cls, call.key, call.errorIfMissing)
         IN r.found /\ r.rec.classes[1] \notin RegisteredClasses
    [] call.op = "getItems" ->
         LET r == StoreGetItems(db, call.cls, call.keys, call.errorIfMissing)
         IN call.keys # <<>> /\ r.err = "none" /\ Unregistered(r.results)
    [] call.op \in {"findItems", "forEachItems"} ->
         Unregistered(StoreFindItems(db, call.cls, call.query))
    [] OTHER -> FALSE

C36_UnknownClass ==
  [][(Idle /\ ~Idle' /\ hasBeenInitialized' /\ StoreReturnsUnregistered(last')) =>
       /\ last'.outcome = "UnknownClass"
       /\ last'.op \in {"getItems", "findItems"} => last'.items = <<>>
       /\ db' = db]_vars

\* a findItems over a store whose second record is of an unregistered class:
\* it failed, and neither record was returned
C36_Witness ==
  /\ last.op = "findItems" /\ last.outcome = "UnknownClass"
  /\ last.items = <<>>
  /\ Len(StoreFindItems(db, last.cls, last.query)) > 1
  /\ StoreFindItems(db, last.cls, last.query)[1].rec.classes[1] \in RegisteredClasses

====
